---------------------------- MODULE Spec2Model ----------------------------
(***************************************************************************)
(* Model of the room state machine of ma-soi-server (src/GameManager.js,   *)
(* second GameManager class, lines 728-1928) together with the server      *)
(* handlers that call it (src/server.js).                                   *)
(*                                                                         *)
(* One room is modelled.  The variable room is the room object of          *)
(* createRoom; every GameManager method is an operator from a room (and    *)
(* the call's arguments) to the room after the call, and every action of   *)
(* the next-state relation is one call of such a method.  Two history      *)
(* variables record the call that entered the current phase and what the   *)
(* resolutions of the current game decided; the program never reads them.  *)
(* The variable timers holds the timeouts that are pending: the one of     *)
(* room.phaseTimer and the delayed early advances of maybeAutoAdvance.     *)
(*                                                                         *)
(* The room is created without the AI host (aiHostEnabled is false); while *)
(* it is off, maybeAutoAdvance and schedulePhaseTimer set no timeout, and  *)
(* the day countdown NEXT_PHASE starts is cleared by the schedulePhaseTimer *)
(* call that ends the handler.  Left out of the room: names, tokens,       *)
(* timestamps, the chat and, of the narrative log (actionLog), every line  *)
(* but those of the seer's checks.                                         *)
(***************************************************************************)
EXTENDS Naturals, Sequences, FiniteSets, Bags, TLC

VARIABLES room, last, hist, timers

vars == <<room, last, hist, timers>>

-----------------------------------------------------------------------------
(* Bounds of the model *)

\* advancePhase is not taken out of vote/defense/final_verdict once day
\* has reached MaxDay (day only ever grows inside a game)
MaxDay == 2

\* startGame is called at most MaxGames times in one behaviour
MaxGames == 2

\* and at most MaxNightGames times in the behaviours of the night rooms
MaxNightGames == 1

\* a witch's accumulated action array holds at most MaxWitchActs entries
MaxWitchActs == 2

\* kickPlayer removes at most MaxKicks players in one behaviour
MaxKicks == 1

\* the timeout of room.phaseTimer runs at most MaxTimeouts times in one
\* behaviour
MaxTimeouts == 2

\* in the rooms of the trials advancePhase is not taken out of
\* vote/defense/final_verdict once day has reached MaxTrialDay
MaxTrialDay == 3

\* The delayed early advances that are pending at a time: every submission
\* made once everybody has submitted sets one more.
MaxDelayed == 2

-----------------------------------------------------------------------------
(* Values *)

\* JavaScript null / undefined
NULL == "null"

\* the id createRoom gives the room's creator
HostId == "h"

ROLE_TYPES ==
  [ ALPHA_WOLF |-> "alphaWolf", WOLF |-> "wolf", DETECTIVE |-> "detective",
    SEER |-> "seer", WITCH |-> "witch", BODYGUARD |-> "bodyguard",
    HUNTER |-> "hunter", TRAITOR |-> "traitor", VILLAGER |-> "villager" ]

\* ROLE_TYPES.LAWYER: ROLE_TYPES has no such key, the lookup gives
\* undefined, which is the role of no player
LAWYER == "undefined"

FACTIONS == [ WOLF |-> "wolf", VILLAGER |-> "villager", NEUTRAL |-> "neutral" ]

\* player.attributes = {}: every flag absent (falsy)
EmptyAttributes ==
  [ hasCursed |-> FALSE, hasSaved |-> FALSE, hasKilled |-> FALSE,
    hasProtected |-> FALSE, lastProtectedId |-> NULL, pinnedTargetId |-> NULL ]

\* the player object pushed by createRoom (isHost) and joinRoom
NewPlayer(id, isHost) ==
  [ id |-> id, role |-> NULL, faction |-> NULL, alive |-> TRUE,
    connected |-> TRUE, isHost |-> isHost, hasVoted |-> FALSE,
    attributes |-> EmptyAttributes ]

\* the room object of createRoom
createRoom(hostId) ==
  [ ownerId |-> hostId, phase |-> "lobby", day |-> 0, maxPlayers |-> 15,
    players |-> << NewPlayer(hostId, TRUE) >>,
    votes |-> << >>, actions |-> << >>, finalVotes |-> << >>,
    discussionReady |-> {}, winner |-> NULL,
    aiHostEnabled |-> FALSE, aiHostId |-> NULL,
    pendingExecutionId |-> NULL, executedPlayerId |-> NULL,
    lastNightDeaths |-> << >>, actionLog |-> << >> ]

\* a new player joining in the lobby (joinRoom without a reconnect token)
joinNew(r, id) == [ r EXCEPT !.players = Append(@, NewPlayer(id, FALSE)) ]

\* the players of the sequence ps who are no host
NonHosts(ps) == { i \in 1..Len(ps) : ~ps[i].isHost }

\* joinRoom without a reconnect token, id being the id the new player gets
joinRoom(r, id) ==
  IF r.phase # "lobby" THEN [ result |-> "error", room |-> r ]
  ELSE IF Cardinality(NonHosts(r.players)) >= r.maxPlayers
    THEN [ result |-> "error", room |-> r ]
  ELSE [ result |-> "ok", room |-> joinNew(r, id) ]

RECURSIVE joinAll(_, _)
joinAll(r, ids) ==
  IF ids = << >> THEN r ELSE joinAll(joinNew(r, Head(ids)), Tail(ids))

-----------------------------------------------------------------------------
(* Helpers: Array.find / filter / forEach and Map get / set on sequences *)

Range(s) == { s[i] : i \in 1..Len(s) }

Ids(ps) == { ps[i].id : i \in 1..Len(ps) }

\* room.players.find(p => p.id === id): the index, 0 when there is none
FindIdx(ps, id) ==
  IF \E i \in 1..Len(ps) : ps[i].id = id
    THEN CHOOSE i \in 1..Len(ps) : ps[i].id = id /\ \A j \in 1..(i-1) : ps[j].id # id
    ELSE 0

HasPlayer(ps, id) == FindIdx(ps, id) # 0

Player(ps, id) == ps[FindIdx(ps, id)]

\* a Map as the sequence of its entries [k, v] in insertion order
MapHas(m, k) == \E i \in 1..Len(m) : m[i].k = k

MapGet(m, k) == (CHOOSE e \in Range(m) : e.k = k).v

\* Map.set: a new key goes last, an existing key keeps its place
MapSet(m, k, v) ==
  IF MapHas(m, k)
    THEN [ i \in 1..Len(m) |-> IF m[i].k = k THEN [ k |-> k, v |-> v ] ELSE m[i] ]
    ELSE Append(m, [ k |-> k, v |-> v ])

\* Map.delete
MapDelete(m, k) == LET keep(e) == e.k # k IN SelectSeq(m, keep)

\* the plurality count of the kill and vote tallies: targets counted into a
\* Map in the order they are first named
RECURSIVE Tally(_, _)
Tally(targets, counts) ==
  IF targets = << >> THEN counts
  ELSE LET t == Head(targets)
           n == IF MapHas(counts, t) THEN MapGet(counts, t) ELSE 0
       IN Tally(Tail(targets), MapSet(counts, t, n + 1))

\* forEach((count, id) => { if (count > max) { max = count; leader = id } })
RECURSIVE Leader(_, _, _)
Leader(counts, max, leader) ==
  IF counts = << >> THEN [ max |-> max, id |-> leader ]
  ELSE IF Head(counts).v > max
    THEN Leader(Tail(counts), Head(counts).v, Head(counts).k)
    ELSE Leader(Tail(counts), max, leader)

-----------------------------------------------------------------------------
(* Role assignment *)

FactionOf(role) ==
  IF role = ROLE_TYPES.ALPHA_WOLF \/ role = ROLE_TYPES.WOLF THEN FACTIONS.WOLF
  ELSE IF role = ROLE_TYPES.TRAITOR THEN FACTIONS.NEUTRAL
  ELSE FACTIONS.VILLAGER

\* a role configuration is the sequence of the entries [role, count] of the
\* roleConfig object; the pool holds count tokens of each role
RECURSIVE Repeat(_, _)
Repeat(x, n) == IF n = 0 THEN << >> ELSE << x >> \o Repeat(x, n - 1)

RECURSIVE ConfiguredPool(_)
ConfiguredPool(config) ==
  IF config = << >> THEN << >>
  ELSE Repeat(Head(config).role, Head(config).count) \o ConfiguredPool(Tail(config))

\* while (pool.length < playersToAssign.length) pool.push(VILLAGER)
PaddedPool(config, n) ==
  LET pool == ConfiguredPool(config)
  IN IF Len(pool) < n THEN pool \o Repeat(ROLE_TYPES.VILLAGER, n - Len(pool)) ELSE pool

\* Shuffle, were pool[j] copied to pool[i] and not swapped with it
RECURSIVE ShuffleOverwrite(_, _, _)
ShuffleOverwrite(pool, draws, i) ==
  IF i <= 1 THEN pool
  ELSE ShuffleOverwrite([ pool EXCEPT ![i] = pool[draws[i]] ], draws, i - 1)

\* the Fisher-Yates loop: for i from the last index down to the second,
\* swap pool[i] with pool[j], j = draws[i] in 1..i being the random draw
RECURSIVE Shuffle(_, _, _)
Shuffle(pool, draws, i) ==
  IF i <= 1 THEN pool
  ELSE LET j == draws[i]
       IN Shuffle([ pool EXCEPT ![i] = pool[j], ![j] = pool[i] ], draws, i - 1)

\* every sequence of draws the loop can make on a pool of length n
Draws(n) == { d \in [ 1..n -> 1..n ] : \A i \in 1..n : d[i] <= i }

NonHostIdxs(ps) == { i \in 1..Len(ps) : ~ps[i].isHost }

\* the position of players[i] among the players that are not hosts
DealIdx(ps, i) == Cardinality({ j \in NonHostIdxs(ps) : j <= i })

assignRoles(r, config, draws) ==
  LET n == Cardinality(NonHostIdxs(r.players))
      pool == Shuffle(PaddedPool(config, n), draws, Len(PaddedPool(config, n)))
  IN [ r EXCEPT !.players =
         [ i \in 1..Len(r.players) |->
             IF r.players[i].isHost THEN r.players[i]
             ELSE [ r.players[i] EXCEPT
                      !.role = pool[DealIdx(r.players, i)],
                      !.attributes = EmptyAttributes,
                      !.faction = FactionOf(pool[DealIdx(r.players, i)]) ] ] ]

-----------------------------------------------------------------------------
(* startGame, submitAction, checkWin *)

\* the id ensureAIHost gives the AI host player
AiHostId == "ai"

\* a method's outcome: it returned a value (ok), returned null or threw an
\* error, and the room it left
Returned(r) == [ result |-> "ok", room |-> r ]
ReturnedNull(r) == [ result |-> "null", room |-> r ]
Threw(r) == [ result |-> "error", room |-> r ]

resetAliveState(r) ==
  [ r EXCEPT !.players =
      [ i \in 1..Len(r.players) |->
          [ r.players[i] EXCEPT !.alive = TRUE, !.connected = TRUE,
                                !.hasVoted = FALSE, !.attributes = EmptyAttributes ] ] ]

ensureAIHost(r) ==
  IF r.aiHostId = NULL
    THEN [ r EXCEPT !.aiHostId = AiHostId,
                    !.players = Append(@, NewPlayer(AiHostId, TRUE)) ]
    ELSE r

\* owner.isHost = value, when the owner is still in the room
SetOwnerHost(r, value) ==
  IF HasPlayer(r.players, r.ownerId)
    THEN [ r EXCEPT !.players[FindIdx(r.players, r.ownerId)].isHost = value ]
    ELSE r

\* with the AI host enabled, startGame adds the AI host if there is none and
\* converts the owner host to a player, who gets a role
OwnerPlays(r) ==
  IF r.aiHostEnabled THEN SetOwnerHost(ensureAIHost(r), FALSE) ELSE r

startGame(r, hostId, config, draws) ==
  LET aiHostOk == r.aiHostEnabled /\ r.aiHostId = hostId
  IN IF ~HasPlayer(r.players, hostId)
        \/ (~Player(r.players, hostId).isHost /\ ~aiHostOk)
       THEN Threw(r)
       ELSE
         LET r2 == assignRoles(resetAliveState(OwnerPlays(r)), config, draws)
         IN Returned([ r2 EXCEPT !.phase = "night", !.day = 1,
                                 !.discussionReady = {}, !.finalVotes = << >>,
                                 !.pendingExecutionId = NULL,
                                 !.lastNightDeaths = << >>, !.winner = NULL,
                                 !.actionLog = << >> ])

\* startGame with a roleConfig that is undefined or null: Object.values
\* throws (a TypeError) after the owner was made a player and the players reset
startGameNoConfig(r, hostId) ==
  IF ~HasPlayer(r.players, hostId)
     \/ (~Player(r.players, hostId).isHost /\ ~(r.aiHostEnabled /\ r.aiHostId = hostId))
    THEN Threw(r)
    ELSE Threw(resetAliveState(OwnerPlays(r)))

\* a ledger value: the witch's array of actions (isArray) or one action object
OneAction(type, targetId) ==
  [ isArray |-> FALSE, acts |-> << [ type |-> type, targetId |-> targetId ] >> ]

submitAction(r, playerId, actionType, targetId) ==
  IF ~HasPlayer(r.players, playerId) \/ ~Player(r.players, playerId).alive
    THEN Threw(r)
  ELSE
    LET i == FindIdx(r.players, playerId)
        player == r.players[i]
        action == [ type |-> actionType, targetId |-> targetId ]
    IN IF player.role = ROLE_TYPES.BODYGUARD /\ actionType = "PROTECT"
          /\ player.attributes.lastProtectedId = targetId
         THEN Threw(r)
       ELSE IF player.role = ROLE_TYPES.WITCH
         THEN \* existingActions = room.actions.get(playerId) || []
              IF MapHas(r.actions, playerId) /\ ~MapGet(r.actions, playerId).isArray
                THEN Threw(r)   \* push is not a function of an action object
                ELSE LET existing == IF MapHas(r.actions, playerId)
                                       THEN MapGet(r.actions, playerId).acts ELSE << >>
                     IN Returned([ r EXCEPT
                          !.actions = MapSet(@, playerId,
                             [ isArray |-> TRUE, acts |-> Append(existing, action) ]),
                          !.players[i].hasVoted = TRUE ])
         ELSE Returned([ r EXCEPT
                !.actions = MapSet(@, playerId, OneAction(actionType, targetId)),
                !.players[i].hasVoted = TRUE ])

\* room.players.filter(p => !p.isHost && p.alive && p.faction === WOLF).length
Wolves(ps) ==
  Cardinality({ i \in 1..Len(ps) :
                  ~ps[i].isHost /\ ps[i].alive /\ ps[i].faction = FACTIONS.WOLF })

\* Others, were the host counted
OthersAndHost(ps) ==
  Cardinality({ i \in 1..Len(ps) : ps[i].alive /\ ps[i].faction # FACTIONS.WOLF })

\* room.players.filter(p => !p.isHost && p.alive && p.faction !== WOLF).length
Others(ps) ==
  Cardinality({ i \in 1..Len(ps) :
                  ~ps[i].isHost /\ ps[i].alive /\ ps[i].faction # FACTIONS.WOLF })

checkWin(r) ==
  IF Wolves(r.players) = 0
    THEN [ r EXCEPT !.winner = "VILLAGERS", !.phase = "end" ]
  ELSE IF Wolves(r.players) >= Others(r.players)
    THEN [ r EXCEPT !.winner = "WOLVES", !.phase = "end" ]
  ELSE r

-----------------------------------------------------------------------------
(* resolveNight *)

\* data.type of a ledger value: undefined for the witch's array
DataType(v) == IF v.isArray THEN NULL ELSE v.acts[1].type

DataTarget(v) == IF v.isArray THEN NULL ELSE v.acts[1].targetId

IsWolfRole(role) == role = ROLE_TYPES.WOLF \/ role = ROLE_TYPES.ALPHA_WOLF

\* the local variables of resolveNight before its first loop, with the
\* players (ps) the loops write to; kills are the wolves' targets in ledger
\* order; savers, outcome, poisoned and linked record what the pass did: the
\* witches whose save succeeded, what became of the wolves' kill (none,
\* protected, saved, missing, converted or killed), the players the potion
\* killed and the players a death link killed; potions tells which witch's
\* potion killed whom; logs holds the lines of the seer's checks
NightLocals(r) ==
  [ ps |-> r.players, kills |-> << >>, killTargetId |-> NULL,
    alphaCurseTarget |-> NULL, detectiveTarget |-> NULL,
    protectedTargetId |-> NULL, witchSavedTarget |-> NULL,
    savers |-> {}, outcome |-> "none", poisoned |-> {}, linked |-> {},
    potions |-> {}, logs |-> << >> ]

\* the curse of an alpha wolf counts while its charge is unused
Curses(actor, v) ==
  actor.role = ROLE_TYPES.ALPHA_WOLF /\ DataType(v) = "CURSE"
  /\ ~actor.attributes.hasCursed

\* 1. Collect Actions: one iteration, for the ledger value v of players[i]
ActionOf(s, i, v) ==
  IF i = 0 \/ ~s.ps[i].alive THEN s
  ELSE [ s EXCEPT
         !.kills = IF IsWolfRole(s.ps[i].role) /\ DataType(v) = "KILL"
                     THEN Append(@, DataTarget(v)) ELSE @,
         !.alphaCurseTarget = IF Curses(s.ps[i], v) THEN DataTarget(v) ELSE @,
         !.detectiveTarget = IF s.ps[i].role = ROLE_TYPES.DETECTIVE
                                /\ DataType(v) = "CHECK"
                               THEN DataTarget(v) ELSE @,
         !.ps[i].attributes.hasCursed = IF Curses(s.ps[i], v) THEN TRUE ELSE @ ]

RECURSIVE CollectActions(_, _)
CollectActions(entries, s) ==
  IF entries = << >> THEN s
  ELSE CollectActions(Tail(entries),
         ActionOf(s, FindIdx(s.ps, Head(entries).k), Head(entries).v))

\* 1.5 the PIN actions of one ledger value
RECURSIVE PinActions(_, _, _)
PinActions(acts, s, i) ==
  IF acts = << >> \/ i = 0 THEN s
  ELSE IF s.ps[i].alive /\ s.ps[i].role = ROLE_TYPES.HUNTER /\ Head(acts).type = "PIN"
    THEN PinActions(Tail(acts),
           [ s EXCEPT !.ps[i].attributes.pinnedTargetId = Head(acts).targetId ], i)
    ELSE PinActions(Tail(acts), s, i)

RECURSIVE CollectPins(_, _)
CollectPins(entries, s) ==
  IF entries = << >> THEN s
  ELSE CollectPins(Tail(entries),
         PinActions(Head(entries).v.acts, s, FindIdx(s.ps, Head(entries).k)))

\* 2. Determine Wolf Kill Target (Consensus)
KillTarget(s) ==
  [ s EXCEPT !.killTargetId = Leader(Tally(s.kills, << >>), 0, NULL).id ]

\* 2.1 the PROTECT actions of one ledger value
RECURSIVE ProtectActions(_, _, _)
ProtectActions(acts, s, i) ==
  IF acts = << >> \/ i = 0 THEN s
  ELSE IF s.ps[i].role = ROLE_TYPES.BODYGUARD /\ s.ps[i].alive
          /\ Head(acts).type = "PROTECT"
    THEN ProtectActions(Tail(acts),
           [ s EXCEPT !.protectedTargetId = Head(acts).targetId,
                      !.ps[i].attributes.lastProtectedId = Head(acts).targetId ], i)
    ELSE ProtectActions(Tail(acts), s, i)

RECURSIVE CollectProtection(_, _)
CollectProtection(entries, s) ==
  IF entries = << >> THEN s
  ELSE CollectProtection(Tail(entries),
         ProtectActions(Head(entries).v.acts, s, FindIdx(s.ps, Head(entries).k)))

\* SaveCancels, were the used charge not looked at
SaveCancelsAgain(actor, action, killTargetId) ==
  killTargetId # NULL /\ action.targetId = killTargetId

\* SaveCancels, were the target of the SAVE not looked at
SaveCancelsAny(actor, action, killTargetId) ==
  killTargetId # NULL /\ ~actor.attributes.hasSaved

\* killTargetId && action.targetId === killTargetId && !actor.attributes.hasSaved
SaveCancels(actor, action, killTargetId) ==
  killTargetId # NULL /\ action.targetId = killTargetId
  /\ ~actor.attributes.hasSaved

\* 2.5 the SAVE actions of one ledger value
RECURSIVE SaveActions(_, _, _)
SaveActions(acts, s, i) ==
  IF acts = << >> \/ i = 0 THEN s
  ELSE IF s.ps[i].role = ROLE_TYPES.WITCH /\ s.ps[i].alive
          /\ Head(acts).type = "SAVE"
          /\ SaveCancels(s.ps[i], Head(acts), s.killTargetId)
    THEN SaveActions(Tail(acts),
           [ s EXCEPT !.witchSavedTarget = s.killTargetId,
                      !.savers = @ \cup { s.ps[i].id },
                      !.ps[i].attributes.hasSaved = TRUE ], i)
    ELSE SaveActions(Tail(acts), s, i)

RECURSIVE CollectSaves(_, _)
CollectSaves(entries, s) ==
  IF entries = << >> THEN s
  ELSE CollectSaves(Tail(entries),
         SaveActions(Head(entries).v.acts, s, FindIdx(s.ps, Head(entries).k)))

\* WolfKill, were the cursed victim killed as well
WolfKillCursed(s) ==
  IF s.killTargetId # NULL /\ s.killTargetId # s.witchSavedTarget
     /\ s.killTargetId # s.protectedTargetId /\ HasPlayer(s.ps, s.killTargetId)
    THEN [ s EXCEPT
           !.ps[FindIdx(s.ps, s.killTargetId)].faction =
              IF s.alphaCurseTarget = s.killTargetId THEN FACTIONS.WOLF ELSE @,
           !.ps[FindIdx(s.ps, s.killTargetId)].alive = FALSE,
           !.outcome = IF s.alphaCurseTarget = s.killTargetId
                         THEN "converted" ELSE "killed" ]
    ELSE s

\* 3. Resolve Alpha Curse + Kill Interaction
WolfKill(s) ==
  IF s.killTargetId # NULL /\ s.killTargetId # s.witchSavedTarget
     /\ s.killTargetId # s.protectedTargetId
    THEN IF ~HasPlayer(s.ps, s.killTargetId) THEN [ s EXCEPT !.outcome = "missing" ]
         ELSE IF s.alphaCurseTarget = s.killTargetId
           THEN [ s EXCEPT !.ps[FindIdx(s.ps, s.killTargetId)].faction = FACTIONS.WOLF,
                           !.outcome = "converted" ]
           ELSE [ s EXCEPT !.ps[FindIdx(s.ps, s.killTargetId)].alive = FALSE,
                           !.outcome = "killed" ]
  ELSE IF s.killTargetId = NULL THEN [ s EXCEPT !.outcome = "none" ]
  ELSE IF s.killTargetId = s.protectedTargetId THEN [ s EXCEPT !.outcome = "protected" ]
  ELSE [ s EXCEPT !.outcome = "saved" ]

\* the KILL action that kills and leaves the potion unused
PotionUnspent(s, i, t) ==
  IF s.ps[t].id = s.protectedTargetId
    THEN [ s EXCEPT !.ps[i].attributes.hasKilled = TRUE ]
    ELSE [ s EXCEPT !.ps[t].alive = FALSE,
                    !.poisoned = @ \cup { s.ps[t].id },
                    !.potions = @ \cup { [ witch |-> s.ps[i].id, target |-> s.ps[t].id ] } ]

\* 6. Witch Logic (KILL Potion): one KILL action of the witch players[i] on
\* the alive players[t]
Potion(s, i, t) ==
  IF s.ps[t].id = s.protectedTargetId
    THEN [ s EXCEPT !.ps[i].attributes.hasKilled = TRUE ]
    ELSE [ s EXCEPT !.ps[t].alive = FALSE,
                    !.poisoned = @ \cup { s.ps[t].id },
                    !.potions = @ \cup { [ witch |-> s.ps[i].id, target |-> s.ps[t].id ] },
                    !.ps[i].attributes.hasKilled = TRUE ]

RECURSIVE PotionActions(_, _, _)
PotionActions(acts, s, i) ==
  IF acts = << >> \/ i = 0 THEN s
  ELSE IF s.ps[i].role = ROLE_TYPES.WITCH /\ s.ps[i].alive
          /\ Head(acts).type = "KILL" /\ ~s.ps[i].attributes.hasKilled
          /\ HasPlayer(s.ps, Head(acts).targetId)
          /\ Player(s.ps, Head(acts).targetId).alive
    THEN PotionActions(Tail(acts),
           Potion(s, i, FindIdx(s.ps, Head(acts).targetId)), i)
    ELSE PotionActions(Tail(acts), s, i)

RECURSIVE WitchKills(_, _)
WitchKills(entries, s) ==
  IF entries = << >> THEN s
  ELSE WitchKills(Tail(entries),
         PotionActions(Head(entries).v.acts, s, FindIdx(s.ps, Head(entries).k)))

\* the line "Tien tri soi: <target> la SOI / NGUOI" of the check of the
\* player players[t]
SeerLine(s, t) ==
  [ target |-> s.ps[t].id, isWolf |-> s.ps[t].faction = FACTIONS.WOLF ]

\* 5. Seer Logic: one iteration, for the ledger value v of players[i]
SeerCheck(s, i, v) ==
  IF i # 0 /\ s.ps[i].role = ROLE_TYPES.SEER /\ s.ps[i].alive
     /\ DataType(v) = "CHECK" /\ HasPlayer(s.ps, DataTarget(v))
    THEN [ s EXCEPT !.logs = Append(@, SeerLine(s, FindIdx(s.ps, DataTarget(v)))) ]
    ELSE s

RECURSIVE SeerChecks(_, _)
SeerChecks(entries, s) ==
  IF entries = << >> THEN s
  ELSE SeerChecks(Tail(entries),
         SeerCheck(s, FindIdx(s.ps, Head(entries).k), Head(entries).v))

\* 7. Hunter Death Check: the pinned target of the hunter players[i]
Pinned(s, i) == FindIdx(s.ps, s.ps[i].attributes.pinnedTargetId)

\* room.players.forEach, from players[i] on
RECURSIVE DeathLinks(_, _)
DeathLinks(s, i) ==
  IF i > Len(s.ps) THEN s
  ELSE IF s.ps[i].role = ROLE_TYPES.HUNTER /\ ~s.ps[i].alive
          /\ s.ps[i].attributes.pinnedTargetId # NULL
          /\ Pinned(s, i) # 0 /\ s.ps[Pinned(s, i)].alive
    THEN DeathLinks([ s EXCEPT !.ps[Pinned(s, i)].alive = FALSE,
                               !.linked = @ \cup { s.ps[Pinned(s, i)].id } ], i + 1)
    ELSE DeathLinks(s, i + 1)

\* NightPass, were the PIN actions collected after the kills
NightPassPinsLate(r) ==
  DeathLinks(
    CollectPins(r.actions,
      WitchKills(r.actions,
        WolfKill(
          CollectSaves(r.actions,
            CollectProtection(r.actions,
              KillTarget(
                CollectActions(r.actions, NightLocals(r)))))))), 1)

\* the local variables of resolveNight after its loops, but for logs (the
\* seer's checks write to nothing else)
NightPass(r) ==
  DeathLinks(
    WitchKills(r.actions,
      WolfKill(
        CollectSaves(r.actions,
          CollectProtection(r.actions,
            KillTarget(
              CollectPins(r.actions,
                CollectActions(r.actions, NightLocals(r)))))))), 1)

\* the lines the seer's checks push to logs, after the potions
NightLogs(r) ==
  SeerChecks(r.actions,
    WitchKills(r.actions,
      WolfKill(
        CollectSaves(r.actions,
          CollectProtection(r.actions,
            KillTarget(
              CollectPins(r.actions,
                CollectActions(r.actions, NightLocals(r))))))))).logs

\* room.lastNightDeaths: the players alive before the pass and dead after it
NightDeaths(before, after) ==
  LET died(p) == ~p.isHost /\ ~p.alive /\ HasPlayer(before, p.id)
                 /\ Player(before, p.id).alive
      dead == SelectSeq(after, died)
  IN [ i \in 1..Len(dead) |-> dead[i].id ]

\* ToDay, were the end of the game not looked at
ToDayAlways(r) ==
  [ r EXCEPT !.phase = "day", !.discussionReady = {},
             !.pendingExecutionId = NULL, !.finalVotes = << >> ]

\* Transition to day (unless game ended)
ToDay(r) ==
  IF r.phase # "end"
    THEN [ r EXCEPT !.phase = "day", !.discussionReady = {},
                    !.pendingExecutionId = NULL, !.finalVotes = << >> ]
    ELSE r

\* the room resolveNight leaves, given the players ps its loops left
NightEnd(r, ps) ==
  ToDay(checkWin([ r EXCEPT
    !.players = [ i \in 1..Len(ps) |-> [ ps[i] EXCEPT !.hasVoted = FALSE ] ],
    !.actions = << >>,
    !.lastNightDeaths = NightDeaths(r.players, ps) ]))

\* room.actionLog.push(...logs), when the game has not ended
Logged(r, logs) ==
  IF r.phase # "end" THEN [ r EXCEPT !.actionLog = @ \o logs ] ELSE r

resolveNight(r) == Logged(NightEnd(r, NightPass(r).ps), NightLogs(r))

-----------------------------------------------------------------------------
(* The vote and execution pipeline *)

submitVote(r, playerId, targetId) ==
  IF r.phase # "vote" /\ r.phase # "final_verdict" THEN ReturnedNull(r)
  ELSE IF ~HasPlayer(r.players, playerId) \/ ~Player(r.players, playerId).alive
    THEN ReturnedNull(r)
  ELSE
    LET i == FindIdx(r.players, playerId)
    IN IF r.phase = "vote"
         THEN Returned([ r EXCEPT !.votes = MapSet(@, playerId, targetId),
                                  !.players[i].hasVoted = TRUE ])
         ELSE Returned([ r EXCEPT
                !.finalVotes = MapSet(@, playerId,
                                 IF targetId = "EXECUTE" THEN "EXECUTE" ELSE "SPARE"),
                !.players[i].hasVoted = TRUE ])

\* Lawyer Action (Protection): the immunity of the lawyer playerId is
\* committed on targetId under the ledger key LAWYER_PROTECT, once
submitLawyerProtect(r, playerId, targetId) ==
  IF HasPlayer(r.players, playerId)
     /\ Player(r.players, playerId).role = LAWYER
     /\ Player(r.players, playerId).alive
     /\ ~Player(r.players, playerId).attributes.hasProtected
    THEN [ r EXCEPT
           !.actions = MapSet(@, "LAWYER_PROTECT", targetId),
           !.players[FindIdx(r.players, playerId)].attributes.hasProtected = TRUE ]
    ELSE r

\* the targets of the ballots that are counted, in ballot order
BallotTargets(votes) ==
  LET counted(e) == e.v # NULL /\ e.v # "SKIP"
      kept == SelectSeq(votes, counted)
  IN [ i \in 1..Len(kept) |-> kept[i].v ]

\* room.actions.get('LAWYER_PROTECT'): undefined when no such key is set
LawyerProtect(actions) ==
  IF MapHas(actions, "LAWYER_PROTECT") THEN MapGet(actions, "LAWYER_PROTECT") ELSE NULL

\* the lawyer's protection cancels the candidate it names
Unprotected(targetId, actions) ==
  IF targetId # NULL /\ LawyerProtect(actions) = targetId THEN NULL ELSE targetId

\* the execution candidate of resolveVote: the plurality target, unless the
\* lawyer's protection names it
VoteTarget(r) ==
  Unprotected(Leader(Tally(BallotTargets(r.votes), << >>), 0, NULL).id, r.actions)

\* VoteEnd, were the candidate not recorded
VoteEndUnrecorded(r, targetId) ==
  IF targetId # NULL
    THEN checkWin([ r EXCEPT !.phase = "defense" ])
    ELSE checkWin([ r EXCEPT !.day = @ + 1, !.phase = "execution_reveal" ])

\* the end of resolveVote, with its candidate
VoteEnd(r, targetId) ==
  IF targetId # NULL
    THEN checkWin([ r EXCEPT !.pendingExecutionId = targetId, !.phase = "defense" ])
    ELSE checkWin([ r EXCEPT !.day = @ + 1, !.phase = "execution_reveal" ])

resolveVote(r) ==
  VoteEnd([ r EXCEPT !.executedPlayerId = NULL, !.pendingExecutionId = NULL,
                     !.votes = << >>, !.actions = MapDelete(@, "LAWYER_PROTECT") ],
          VoteTarget(r))

startFinalVerdict(r) ==
  IF r.pendingExecutionId = NULL
    THEN [ r EXCEPT !.finalVotes = << >>, !.day = @ + 1, !.phase = "execution_reveal" ]
    ELSE [ r EXCEPT !.finalVotes = << >>, !.phase = "final_verdict" ]

\* Array.from(room.finalVotes.values()).filter(v => v === choice).length
VerdictCount(finalVotes, choice) ==
  Cardinality({ i \in 1..Len(finalVotes) : finalVotes[i].v = choice })

\* VerdictExecutes, were a tie an execution
VerdictExecutesOnTie(executeVotes, spareVotes) == executeVotes >= spareVotes

\* executeVotes > spareVotes
VerdictExecutes(executeVotes, spareVotes) == executeVotes > spareVotes

\* if (victim && executeVotes > spareVotes)
Executes(r) ==
  /\ HasPlayer(r.players, r.pendingExecutionId)
  /\ VerdictExecutes(VerdictCount(r.finalVotes, "EXECUTE"),
                     VerdictCount(r.finalVotes, "SPARE"))

\* ExecutionLink, were the pinned target left alone
ExecutionLinkNone(ps, v) == ps

\* the executed hunter players[v] drags the pinned target
ExecutionLink(ps, v) ==
  IF ps[v].role = ROLE_TYPES.HUNTER /\ ps[v].attributes.pinnedTargetId # NULL
     /\ HasPlayer(ps, ps[v].attributes.pinnedTargetId)
     /\ Player(ps, ps[v].attributes.pinnedTargetId).alive
    THEN [ ps EXCEPT ![FindIdx(ps, ps[v].attributes.pinnedTargetId)].alive = FALSE ]
    ELSE ps

\* Execute, were the traitor to win on any day
ExecuteAnyDay(r, v) ==
  IF r.players[v].role = ROLE_TYPES.TRAITOR
    THEN [ r EXCEPT !.players[v].alive = FALSE, !.executedPlayerId = r.players[v].id,
                    !.winner = "TRAITOR", !.phase = "end" ]
    ELSE [ r EXCEPT !.players = ExecutionLink([ @ EXCEPT ![v].alive = FALSE ], v),
                    !.executedPlayerId = r.players[v].id ]

\* the execution of the victim players[v]
Execute(r, v) ==
  IF r.players[v].role = ROLE_TYPES.TRAITOR /\ r.day = 1
    THEN [ r EXCEPT !.players[v].alive = FALSE, !.executedPlayerId = r.players[v].id,
                    !.winner = "TRAITOR", !.phase = "end" ]
    ELSE [ r EXCEPT !.players = ExecutionLink([ @ EXCEPT ![v].alive = FALSE ], v),
                    !.executedPlayerId = r.players[v].id ]

\* ToReveal, were the day not counted
ToRevealSameDay(r) ==
  IF r.phase = "end" THEN r
  ELSE [ r EXCEPT !.pendingExecutionId = NULL, !.finalVotes = << >>,
                  !.discussionReady = {}, !.phase = "execution_reveal" ]

\* the end of resolveFinalVerdict, after its win evaluation
ToReveal(r) ==
  IF r.phase = "end" THEN r
  ELSE [ r EXCEPT !.pendingExecutionId = NULL, !.finalVotes = << >>,
                  !.discussionReady = {}, !.day = @ + 1,
                  !.phase = "execution_reveal" ]

\* the traitor's win returns before the win evaluation
VerdictEnd(r) == IF r.winner = "TRAITOR" THEN r ELSE ToReveal(checkWin(r))

resolveFinalVerdict(r) ==
  IF Executes(r)
    THEN VerdictEnd(Execute([ r EXCEPT !.executedPlayerId = NULL ],
                            FindIdx(r.players, r.pendingExecutionId)))
    ELSE ToReveal(checkWin([ r EXCEPT !.executedPlayerId = NULL ]))

\* Manual Phase Advance (Host); the timers call it with the host's id too
advancePhase(r, hostId) ==
  IF ~HasPlayer(r.players, hostId) \/ ~Player(r.players, hostId).isHost
    THEN Threw(r)
  ELSE IF r.phase = "night" THEN Returned(resolveNight(r))
  ELSE IF r.phase = "day"
    THEN Returned([ r EXCEPT !.phase = "vote", !.discussionReady = {} ])
  ELSE IF r.phase = "vote" THEN Returned(resolveVote(r))
  ELSE IF r.phase = "defense" THEN Returned(startFinalVerdict(r))
  ELSE IF r.phase = "final_verdict" THEN Returned(resolveFinalVerdict(r))
  ELSE IF r.phase = "execution_reveal"
    THEN Returned([ r EXCEPT !.phase = "night", !.pendingExecutionId = NULL,
                             !.executedPlayerId = NULL, !.lastNightDeaths = << >> ])
  ELSE Returned(r)

-----------------------------------------------------------------------------
(* endGame, resetGame, joinRoom with a token, kickPlayer *)

\* the body endGame and resetGame share (they differ in the log line only)
BackToLobby(r) ==
  LET r1 == SetOwnerHost(
              [ r EXCEPT !.phase = "lobby", !.day = 0, !.votes = << >>,
                         !.finalVotes = << >>, !.discussionReady = {},
                         !.pendingExecutionId = NULL, !.lastNightDeaths = << >>,
                         !.actions = << >>, !.winner = NULL,
                         !.actionLog = << >> ], TRUE)
  IN [ r1 EXCEPT !.players =
         [ i \in 1..Len(r1.players) |->
             [ r1.players[i] EXCEPT !.role = NULL, !.faction = NULL, !.alive = TRUE,
                                    !.hasVoted = FALSE, !.attributes = EmptyAttributes ] ] ]

IsHostOf(r, hostId) ==
  HasPlayer(r.players, hostId) /\ Player(r.players, hostId).isHost

endGame(r, hostId) == IF ~IsHostOf(r, hostId) THEN Threw(r) ELSE Returned(BackToLobby(r))

resetGame(r, hostId) == IF ~IsHostOf(r, hostId) THEN Threw(r) ELSE Returned(BackToLobby(r))

setMaxPlayers(r, hostId, maxPlayers) ==
  IF ~IsHostOf(r, hostId) THEN Threw(r)
  ELSE IF r.phase # "lobby" THEN Threw(r)
  ELSE IF maxPlayers < 3 \/ maxPlayers > 50 THEN Threw(r)
  ELSE IF Cardinality(NonHosts(r.players)) > maxPlayers THEN Threw(r)
  ELSE Returned([ r EXCEPT !.maxPlayers = maxPlayers ])

\* joinRoom with the reconnect token of the player playerId
reconnect(r, playerId) ==
  LET r1 == [ r EXCEPT !.players[FindIdx(r.players, playerId)].connected = TRUE ]
  IN IF r.phase = "night" /\ r.day = 1 THEN Returned(resetAliveState(r1))
     ELSE Returned(r1)

kickPlayer(r, hostId, targetId) ==
  IF ~IsHostOf(r, hostId) THEN Threw(r)
  ELSE IF hostId = targetId THEN Threw(r)
  ELSE IF ~HasPlayer(r.players, targetId) THEN Threw(r)
  ELSE LET stays(p) == p.id # targetId
       IN Returned([ r EXCEPT !.players = SelectSeq(@, stays) ])

-----------------------------------------------------------------------------
(* The AI host and its timers, getPlayerView, the disconnect handler *)

enableAIHost(r, hostId, enabled) ==
  IF ~IsHostOf(r, hostId) THEN Threw(r)
  ELSE IF enabled THEN Returned(ensureAIHost([ r EXCEPT !.aiHostEnabled = TRUE ]))
  ELSE Returned([ r EXCEPT !.aiHostEnabled = FALSE ])

\* room.aiHostId || room.players.find(p => p.isHost)?.id
TimerHost(r) ==
  IF r.aiHostId # NULL THEN r.aiHostId
  ELSE IF \E i \in 1..Len(r.players) : r.players[i].isHost
    THEN r.players[CHOOSE i \in 1..Len(r.players) :
                     r.players[i].isHost /\ \A j \in 1..(i-1) : ~r.players[j].isHost].id
    ELSE NULL

\* a timeout: whether it is pending, and the phase and the day of the room
\* when it was set, with the host id its callback will call advancePhase as
NoTimer == [ pending |-> FALSE, phase |-> NULL, day |-> 0, hostId |-> NULL ]

Timeout(r) == [ pending |-> TRUE, phase |-> r.phase, day |-> r.day, hostId |-> TimerHost(r) ]

\* the timers of the room: room.phaseTimer and the bag of the delayed early
\* advances of maybeAutoAdvance that have not run yet (several can be set in
\* one phase); fired counts the timeouts of room.phaseTimer that have run
\* games the startGame calls that have returned and advanced the delayed
\* early advances that have advanced the room (history)
NoTimers ==
  [ phaseTimer |-> NoTimer, delayed |-> EmptyBag, fired |-> 0, games |-> 0,
    advanced |-> {} ]

\* the phases schedulePhaseTimer sets a timeout in
TimedPhases ==
  { "night", "day", "vote", "execution_reveal", "defense", "final_verdict" }

schedulePhaseTimer(r, t) ==
  IF ~r.aiHostEnabled \/ TimerHost(r) = NULL \/ r.phase \notin TimedPhases
    THEN [ t EXCEPT !.phaseTimer = NoTimer ]
    ELSE [ t EXCEPT !.phaseTimer = Timeout(r) ]

NightRoles ==
  { ROLE_TYPES.ALPHA_WOLF, ROLE_TYPES.WOLF, ROLE_TYPES.DETECTIVE, ROLE_TYPES.SEER,
    ROLE_TYPES.WITCH, ROLE_TYPES.BODYGUARD, ROLE_TYPES.HUNTER }

AlivePlayers(r) == { p \in Range(r.players) : p.alive }

AliveGuests(r) == { p \in Range(r.players) : ~p.isHost /\ p.alive }

getActionStatus(r) ==
  IF r.phase = "vote"
    THEN [ submitted |-> Len(r.votes), total |-> Cardinality(AlivePlayers(r)) ]
  ELSE IF r.phase = "night"
    THEN LET active == { p \in AlivePlayers(r) : p.role \in NightRoles }
         IN [ submitted |-> Cardinality({ p \in active : MapHas(r.actions, p.id) }),
              total |-> Cardinality(active) ]
  ELSE IF r.phase = "final_verdict"
    THEN [ submitted |-> Len(r.finalVotes), total |-> Cardinality(AlivePlayers(r)) ]
  ELSE [ submitted |-> 0, total |-> 0 ]

\* whether everybody has submitted, readied or voted in the phase of r
AllIn(r) ==
  IF r.phase = "night" \/ r.phase = "vote"
    THEN getActionStatus(r).total > 0
         /\ getActionStatus(r).submitted >= getActionStatus(r).total
  ELSE IF r.phase = "day"
    THEN AliveGuests(r) # {}
         /\ Cardinality(r.discussionReady) >= Cardinality(AliveGuests(r))
  ELSE IF r.phase = "final_verdict"
    THEN AliveGuests(r) # {} /\ Len(r.finalVotes) >= Cardinality(AliveGuests(r))
  ELSE FALSE

\* the delayed callback maybeAutoAdvance sets: the host id it will call
\* advancePhase as and the phase it compares the room's with; the day and
\* the game it is set in are history
Early(r, t) ==
  [ hostId |-> TimerHost(r), phase |-> r.phase, day |-> r.day, game |-> t.games ]

\* AI helper: if all actions/votes submitted, auto advance (after a delay)
maybeAutoAdvance(r, t) ==
  IF ~r.aiHostEnabled \/ TimerHost(r) = NULL THEN t
  ELSE IF AllIn(r) THEN [ t EXCEPT !.delayed = @ (+) SetToBag({ Early(r, t) }) ]
  ELSE t

\* checkWin clears room.phaseTimer when the AI host is enabled and there is a
\* winner; a is the room before an advancePhase and b the room after it
ClearedOnWin(a, b, t) ==
  IF a.phase \in { "night", "vote", "final_verdict" } /\ b.aiHostEnabled
     /\ b.winner \in { "VILLAGERS", "WOLVES" }
    THEN [ t EXCEPT !.phaseTimer = NoTimer ]
    ELSE t

markDiscussionReady(r, playerId) ==
  IF r.phase # "day" THEN Threw(r)
  ELSE IF ~HasPlayer(r.players, playerId) \/ ~Player(r.players, playerId).alive
          \/ Player(r.players, playerId).isHost
    THEN Threw(r)
  ELSE Returned([ r EXCEPT !.discussionReady = @ \cup { playerId } ])

\* the safety net of getPlayerView: at night 1, were all the players who are
\* no host dead, everybody is revived
Revived(r) ==
  IF r.phase = "night" /\ r.day = 1
     /\ (\E p \in Range(r.players) : ~p.isHost) /\ AliveGuests(r) = {}
    THEN resetAliveState(r)
    ELSE r

\* CanSeeAll, were a requester who is not in the room taken for a dead one
CanSeeAllUnknown(r, playerId) ==
  ~HasPlayer(r.players, playerId)
  \/ Player(r.players, playerId).isHost \/ ~Player(r.players, playerId).alive

\* Dead players and hosts see everything
CanSeeAll(r, playerId) ==
  HasPlayer(r.players, playerId)
  /\ (Player(r.players, playerId).isHost \/ ~Player(r.players, playerId).alive)

\* the players of the view getPlayerView returns to playerId
getPlayerView(r, playerId) ==
  [ i \in 1..Len(Revived(r).players) |->
      LET p == Revived(r).players[i]
      IN [ id |-> p.id, connected |-> p.connected, isHost |-> p.isHost,
           alive |-> p.alive,
           role |-> IF p.id = playerId \/ r.phase = "end"
                       \/ CanSeeAll(Revived(r), playerId)
                      THEN p.role ELSE "???" ] ]

\* socket.on('disconnect') of the socket of playerId; when the host of a
\* room without AI host leaves, the room is closed and left as it is
disconnect(r, playerId) ==
  IF ~HasPlayer(r.players, playerId) THEN r
  ELSE IF Player(r.players, playerId).isHost /\ ~r.aiHostEnabled THEN r
  ELSE IF r.phase # "lobby" \/ r.aiHostEnabled
    THEN [ r EXCEPT !.players[FindIdx(r.players, playerId)].connected = FALSE,
                    !.votes = MapDelete(@, playerId),
                    !.actions = MapDelete(@, playerId) ]
  ELSE LET stays(p) == p.id # playerId
       IN [ r EXCEPT !.players = SelectSeq(@, stays),
                     !.votes = MapDelete(@, playerId),
                     !.actions = MapDelete(@, playerId) ]

-----------------------------------------------------------------------------
(* The calls the clients make *)

\* the action types a client offers to a player of the given role; a
\* player without a night ability sends a type resolveNight does not know
Abilities(role) ==
  IF role = ROLE_TYPES.WOLF THEN { "KILL" }
  ELSE IF role = ROLE_TYPES.ALPHA_WOLF THEN { "KILL", "CURSE" }
  ELSE IF role = ROLE_TYPES.BODYGUARD THEN { "PROTECT" }
  ELSE IF role = ROLE_TYPES.WITCH THEN { "SAVE", "KILL" }
  ELSE IF role = ROLE_TYPES.HUNTER THEN { "PIN" }
  ELSE IF role = ROLE_TYPES.SEER \/ role = ROLE_TYPES.DETECTIVE THEN { "CHECK" }
  ELSE { "NONE" }

\* history of the call that entered the current phase (a startGame, an
\* advancePhase, an endGame or a resetGame that returned): what it was and,
\* for a night, vote or verdict resolution, what the resolution decided
NoDetail ==
  [ killTargetId |-> NULL, protectedTargetId |-> NULL, witchSavedTarget |-> NULL,
    alphaCurseTarget |-> NULL, savers |-> {}, outcome |-> NULL, poisoned |-> {},
    potions |-> {}, potionKills |-> {},
    linked |-> {}, guarded |-> {}, cursed |-> {}, victimId |-> NULL,
    executeVotes |-> 0, spareVotes |-> 0, voteTarget |-> NULL ]

Called(op) == [ op |-> op, detail |-> NoDetail ]

\* the actions of a ledger entry
Acts(e) == { e.v.acts[j] : j \in 1..Len(e.v.acts) }

\* the ledger entries of r whose actor is in the room, alive and of the role
EntriesOf(r, role) ==
  { e \in Range(r.actions) :
      /\ HasPlayer(r.players, e.k)
      /\ Player(r.players, e.k).role = role
      /\ Player(r.players, e.k).alive }

\* the targets the alive bodyguards of r submitted PROTECT on
Guarded(r) ==
  { a.targetId : a \in { b \in UNION { Acts(e) : e \in EntriesOf(r, ROLE_TYPES.BODYGUARD) } :
                           b.type = "PROTECT" } }

\* the targets the alive alpha wolves of r with an unused curse submitted
\* CURSE on
Cursed(r) ==
  { e.v.acts[1].targetId :
      e \in { x \in EntriesOf(r, ROLE_TYPES.ALPHA_WOLF) :
                /\ ~x.v.isArray /\ x.v.acts[1].type = "CURSE"
                /\ ~Player(r.players, x.k).attributes.hasCursed } }

\* the alive witches of r with a SAVE action in the ledger
SaveSubmitters(r) ==
  { e.k : e \in { x \in EntriesOf(r, ROLE_TYPES.WITCH) :
                    \E a \in Acts(x) : a.type = "SAVE" } }

\* the alive witches of r with a SAVE action on the target t in the ledger
SaveSubmittersOn(r, t) ==
  { e.k : e \in { x \in EntriesOf(r, ROLE_TYPES.WITCH) :
                    \E a \in Acts(x) : a.type = "SAVE" /\ a.targetId = t } }

\* the KILL actions of the alive witches in the ledger of r: who poisons
\* whom
PotionKills(r) ==
  UNION { { [ witch |-> e.k, target |-> a.targetId ] :
              a \in { b \in Acts(e) : b.type = "KILL" } } :
          e \in EntriesOf(r, ROLE_TYPES.WITCH) }

\* what the resolveNight of the room r did, its local variables being s
NightDetail(r, s) ==
  [ NoDetail EXCEPT
      !.killTargetId = s.killTargetId, !.protectedTargetId = s.protectedTargetId,
      !.witchSavedTarget = s.witchSavedTarget,
      !.alphaCurseTarget = s.alphaCurseTarget,
      !.savers = s.savers, !.outcome = s.outcome, !.poisoned = s.poisoned,
      !.potions = s.potions, !.potionKills = PotionKills(r),
      !.linked = s.linked, !.guarded = Guarded(r), !.cursed = Cursed(r) ]

\* what an advancePhase called on the room r did
Advanced(r) ==
  IF r.phase = "night"
    THEN [ op |-> "resolveNight", detail |-> NightDetail(r, NightPass(r)) ]
  ELSE IF r.phase = "vote"
    THEN [ op |-> "resolveVote",
           detail |-> [ NoDetail EXCEPT !.voteTarget = VoteTarget(r) ] ]
  ELSE IF r.phase = "final_verdict"
    THEN [ op |-> "resolveFinalVerdict",
           detail |-> [ NoDetail EXCEPT
             !.victimId = r.pendingExecutionId,
             !.executeVotes = VerdictCount(r.finalVotes, "EXECUTE"),
             !.spareVotes = VerdictCount(r.finalVotes, "SPARE") ] ]
  ELSE Called("advancePhase")

\* history of the current game: the number of startGame calls and of kicks
\* so far, and of the witches' salvation: who saved, who saved a second
\* time, whose SAVE went unused at an earlier night, who saved after that,
\* and whose SAVE on the consensus target was refused as already used;
\* whom each guard protected at the last night resolved; on whom a lawyer
\* committed the immunity since the last vote, and which lawyers have
\* committed theirs; the number of nights begun; and which witch's potion
\* killed whom at which night
NewGame(h) ==
  [ games |-> h.games, kicks |-> h.kicks,
    saved |-> {}, savedAgain |-> {}, unused |-> {}, savedLater |-> {}, refused |-> {},
    guards |-> {}, committed |-> NULL, spent |-> {}, nights |-> 0,
    potions |-> {} ]

\* the PROTECT actions of the alive bodyguards in the ledger of r: who
\* protects whom
Protections(r) ==
  { [ guard |-> e.k, target |-> e.v.acts[1].targetId ] :
      e \in { x \in EntriesOf(r, ROLE_TYPES.BODYGUARD) : x.v.acts[1].type = "PROTECT" } }

\* the history after the resolveNight of the room r, which decided d
AfterNight(h, r, d) ==
  [ h EXCEPT
      !.saved = @ \cup d.savers,
      !.savedAgain = @ \cup (h.saved \cap d.savers),
      !.unused = @ \cup { w \in SaveSubmitters(r) \ d.savers :
                            ~Player(r.players, w).attributes.hasSaved },
      !.savedLater = @ \cup (h.unused \cap d.savers),
      !.refused = @ \cup { w \in SaveSubmittersOn(r, d.killTargetId) :
                             Player(r.players, w).attributes.hasSaved },
      !.guards = Protections(r),
      !.potions = @ \cup { [ witch |-> p.witch, target |-> p.target, night |-> h.nights ] :
                             p \in d.potions } ]

\* the history after an advancePhase that did did on the room r
After(h, r, did) ==
  IF did.op = "resolveNight" THEN AfterNight(h, r, did.detail)
  ELSE IF did.op = "resolveVote" THEN [ h EXCEPT !.committed = NULL ]
  ELSE IF r.phase = "execution_reveal" THEN [ h EXCEPT !.nights = @ + 1 ]
  ELSE h

\* the room after createRoom and the joinRoom of the guests
Lobby(guests) == joinAll(createRoom(HostId), guests)

InitWith(guests) ==
  /\ room = Lobby(guests)
  /\ last = Called("joinRoom")
  /\ hist = NewGame([ games |-> 0, kicks |-> 0 ])
  /\ timers = NoTimers

\* the players with a socket: everybody but the AI host
Clients(r) == Ids(r.players) \ { r.aiHostId }

\* the draws that leave the pool in the order of the configuration
NoSwap(n) == { [ i \in 1..n |-> i ] }

\* startGame by any player of the room, with a configuration of configs,
\* while fewer than games games were started; every outcome of the shuffle
\* when shuffled, the pool as configured if not
StartGame(configs, shuffled, games) ==
  /\ hist.games < games
  /\ \E hostId \in Clients(room), config \in configs :
       LET n == Len(PaddedPool(config, Cardinality(NonHostIdxs(OwnerPlays(room).players))))
       IN \E draws \in IF shuffled THEN Draws(n) ELSE NoSwap(n) :
            \E out \in { startGame(room, hostId, config, draws) } :
              /\ out.result = "ok"
              /\ room' = out.room
              /\ last' = Called("startGame")
              /\ hist' = [ NewGame([ hist EXCEPT !.games = @ + 1 ]) EXCEPT !.nights = 1 ]
              /\ timers' = [ timers EXCEPT !.games = @ + 1 ]

\* submitAction by a player of actors, of an ability of the player's role,
\* on a target of targets, in a phase of phases; a call that throws leaves
\* the state as it is
SubmitAction(actors, targets, phases) ==
  \E playerId \in actors, targetId \in targets \cup { NULL } :
    /\ room.phase \in phases
    /\ HasPlayer(room.players, playerId)
    /\ \E actionType \in Abilities(Player(room.players, playerId).role) :
         /\ (actionType = "NONE") = (targetId = NULL)
         /\ MapHas(room.actions, playerId) /\ MapGet(room.actions, playerId).isArray
              => Len(MapGet(room.actions, playerId).acts) < MaxWitchActs
         /\ \E out \in { submitAction(room, playerId, actionType, targetId) } :
              /\ room' = out.room
              /\ timers' = IF out.result = "ok"
                             THEN schedulePhaseTimer(out.room,
                                    maybeAutoAdvance(out.room, timers))
                             ELSE timers
              /\ BagCardinality(timers'.delayed) <= MaxDelayed
         /\ UNCHANGED << last, hist >>

\* submitVote by a player of voters: a ballot for a target of targets or
\* SKIP in vote, EXECUTE or SPARE in final_verdict
SubmitVote(voters, targets) ==
  \E playerId \in voters :
    \E targetId \in IF room.phase = "final_verdict" THEN { "EXECUTE", "SPARE" }
                    ELSE targets \cup { "SKIP" } :
      /\ room' = submitVote(room, playerId, targetId).room
      /\ timers' = schedulePhaseTimer(room', maybeAutoAdvance(room', timers))
      /\ BagCardinality(timers'.delayed) <= MaxDelayed
      /\ UNCHANGED << last, hist >>

\* advancePhase by any client (NEXT_PHASE), while day is below days in the
\* phases that raise it; the handler ends with schedulePhaseTimer, whether
\* advancePhase threw or not
AdvancePhaseUntil(days) ==
  /\ room.phase \in { "vote", "defense", "final_verdict" } => room.day < days
  /\ \E hostId \in Clients(room) :
       \E out \in { advancePhase(room, hostId) } :
         /\ room' = out.room
         /\ timers' = schedulePhaseTimer(out.room, timers)
         /\ \/ /\ out.result = "ok"
               /\ \E did \in { Advanced(room) } :
                    /\ last' = did
                    /\ hist' = After(hist, room, did)
            \/ /\ out.result # "ok"
               /\ UNCHANGED << last, hist >>

AdvancePhase == AdvancePhaseUntil(MaxDay)

EndGame ==
  \E hostId \in Clients(room) :
    \E out \in { endGame(room, hostId) } :
      /\ room' = out.room
      /\ UNCHANGED timers
      /\ last' = IF out.result = "ok" THEN Called("endGame") ELSE last
      /\ hist' = IF out.result = "ok" THEN NewGame(hist) ELSE hist

ResetGame ==
  \E hostId \in Clients(room) :
    \E out \in { resetGame(room, hostId) } :
      /\ room' = out.room
      /\ UNCHANGED timers
      /\ last' = IF out.result = "ok" THEN Called("resetGame") ELSE last
      /\ hist' = IF out.result = "ok" THEN NewGame(hist) ELSE hist

\* joinRoom with the token of any client, and the getPlayerView that
\* answers it
Reconnect ==
  \E playerId \in Clients(room) :
    /\ room' = Revived(reconnect(room, playerId).room)
    /\ UNCHANGED << last, hist, timers >>

\* kickPlayer by any client, of any player of the room, and the
\* getPlayerView that follows it
KickPlayer ==
  /\ hist.kicks < MaxKicks
  /\ \E hostId \in Clients(room), targetId \in Ids(room.players) :
       \E out \in { kickPlayer(room, hostId, targetId) } :
         /\ out.result = "ok"
         /\ room' = Revived(out.room)
         /\ last' = last
         /\ hist' = [ hist EXCEPT !.kicks = @ + 1 ]
         /\ UNCHANGED timers

\* startGame by any client without a roleConfig: the call throws
StartGameNoConfig ==
  \E hostId \in Clients(room) :
    /\ room' = startGameNoConfig(room, hostId).room
    /\ UNCHANGED << last, hist, timers >>

\* the socket of a client of clients disconnects
Disconnect(clients) ==
  \E playerId \in clients \cap Clients(room) :
    /\ room' = disconnect(room, playerId)
    /\ UNCHANGED << last, hist, timers >>

\* SET_AI_HOST_ENABLED by any client
SetAiHostEnabled ==
  \E hostId \in Clients(room), enabled \in BOOLEAN :
    \E out \in { enableAIHost(room, hostId, enabled) } :
      /\ room' = out.room
      /\ timers' = IF out.result = "ok" THEN schedulePhaseTimer(out.room, timers)
                     ELSE timers
      /\ UNCHANGED << last, hist >>

\* READY_FOR_VOTE by a client of players
ReadyForVote(players) ==
  \E playerId \in players \cap Clients(room) :
    \E out \in { markDiscussionReady(room, playerId) } :
      /\ room' = out.room
      /\ timers' = IF out.result = "ok"
                     THEN schedulePhaseTimer(out.room, maybeAutoAdvance(out.room, timers))
                     ELSE timers
      /\ BagCardinality(timers'.delayed) <= MaxDelayed
      /\ UNCHANGED << last, hist >>

\* the advancePhase a timeout's callback calls as hostId
TimerAdvance(hostId) ==
  /\ room.phase \in { "vote", "defense", "final_verdict" } => room.day < MaxDay
  /\ \E out \in { advancePhase(room, hostId) } :
       /\ room' = out.room
       /\ \E did \in { IF out.result = "ok" THEN Advanced(room) ELSE last } :
            /\ last' = did
            /\ hist' = IF out.result = "ok" THEN After(hist, room, did) ELSE hist

\* the timeout of room.phaseTimer runs: advance(), which catches the error
\* of advancePhase.  The delays of the early advances (2 s at most) are
\* shorter than every phase timeout (5 s at least), so those pending run
\* first.
PhaseTimeout ==
  /\ timers.phaseTimer.pending /\ timers.delayed = EmptyBag
  /\ timers.fired < MaxTimeouts
  /\ TimerAdvance(timers.phaseTimer.hostId)
  /\ timers' = [ timers EXCEPT !.phaseTimer = NoTimer, !.fired = @ + 1 ]

\* a delayed early advance of maybeAutoAdvance runs: it calls advancePhase
\* if the room is still in the phase it was set in (the call is outside any
\* try: the behaviours where it would throw are left out)
DelayedAdvance ==
  \E d \in BagToSet(timers.delayed) :
    IF room.phase = d.phase
      THEN /\ IsHostOf(room, d.hostId)
           /\ TimerAdvance(d.hostId)
           /\ timers' = ClearedOnWin(room, room',
                                     [ timers EXCEPT !.delayed = @ (-) SetToBag({ d }),
                                                     !.advanced = @ \cup { d } ])
      ELSE /\ timers' = [ timers EXCEPT !.delayed = @ (-) SetToBag({ d }) ]
           /\ UNCHANGED << room, last, hist >>

\* submitLawyerProtect by a player of lawyers on a target of targets,
\* before the vote closes; the history keeps the commitment of an alive
\* player dealt the lawyer's role whose immunity is unused
SubmitLawyerProtect(lawyers, targets) ==
  \E playerId \in lawyers \cap Clients(room), targetId \in targets :
    /\ room.phase \in { "night", "day", "vote" }
    /\ room' = submitLawyerProtect(room, playerId, targetId)
    /\ hist' = IF Player(room.players, playerId).role = "lawyer"
                  /\ Player(room.players, playerId).alive
                  /\ playerId \notin hist.spent
                 THEN [ hist EXCEPT !.committed = targetId, !.spent = @ \cup { playerId } ]
                 ELSE hist
    /\ UNCHANGED << last, timers >>

\* JOIN_ROOM by a newcomer, who gets an id of ids
JoinRoom(ids) ==
  \E id \in ids \ Ids(room.players) :
    /\ room' = joinRoom(room, id).room
    /\ UNCHANGED << last, hist, timers >>

\* SET_MAX_PLAYERS by any client, to a limit of limits
SetMaxPlayers(limits) ==
  \E hostId \in Clients(room), maxPlayers \in limits :
    /\ room' = setMaxPlayers(room, hostId, maxPlayers).room
    /\ UNCHANGED << last, hist, timers >>

\* GET_PLAYERS by any client: getPlayerView, which may revive the players
GetPlayers ==
  /\ room' = Revived(room)
  /\ UNCHANGED << last, hist, timers >>

-----------------------------------------------------------------------------
(* Specifications *)

Role(role, count) == [ role |-> role, count |-> count ]

Phases ==
  { "lobby", "night", "day", "vote", "defense", "final_verdict",
    "execution_reveal", "end" }

\* one call of any method but kickPlayer
Play(configs, games, actors, actionTargets, phases, voters, voteTargets) ==
  \/ StartGame(configs, FALSE, games)
  \/ SubmitAction(actors, actionTargets, phases)
  \/ SubmitVote(voters, voteTargets)
  \/ AdvancePhase
  \/ EndGame
  \/ ResetGame
  \/ Reconnect

\* A room of three guests, p1 a wolf and p2 the traitor: every method is
\* called, the wolf acts and the guests vote.
Guests == << "p1", "p2", "p3" >>

Configs == { << Role(ROLE_TYPES.WOLF, 1), Role(ROLE_TYPES.TRAITOR, 1) >> }

Init == InitWith(Guests)

Next ==
  \/ Play(Configs, MaxGames, { "p1" }, { "p2", "p3" }, Phases, Range(Guests), { "p1", "p2" })
  \/ KickPlayer

Spec == Init /\ [][Next]_vars

\* A room of five guests for the nights of the wolves, the guards, the alpha
\* wolves and a hunter: p1, p2 and p3 act on p3 and p4, and p1 votes SKIP.
NightGuests == << "p1", "p2", "p3", "p4", "p5" >>

NightConfigs ==
  { << Role(ROLE_TYPES.WOLF, 1), Role(ROLE_TYPES.BODYGUARD, 2) >>,
    << Role(ROLE_TYPES.ALPHA_WOLF, 1), Role(ROLE_TYPES.WOLF, 1),
       Role(ROLE_TYPES.BODYGUARD, 1) >>,
    << Role(ROLE_TYPES.ALPHA_WOLF, 2), Role(ROLE_TYPES.WOLF, 1) >>,
    << Role(ROLE_TYPES.WOLF, 1), Role(ROLE_TYPES.BODYGUARD, 1),
       Role(ROLE_TYPES.HUNTER, 1) >> }

NightInit == InitWith(NightGuests)

NightNext ==
  Play(NightConfigs, MaxNightGames, { "p1", "p2", "p3" }, { "p3", "p4" },
       { "night" }, { "p1" }, {})

NightSpec == NightInit /\ [][NightNext]_vars

\* A room of five guests for the nights of the witches: p1 is a wolf, p2 a
\* witch and p3 a villager or a guard; they act on p3 and p4, and p1 votes
\* SKIP.
WitchConfigs ==
  { << Role(ROLE_TYPES.WOLF, 1), Role(ROLE_TYPES.WITCH, 1) >>,
    << Role(ROLE_TYPES.WOLF, 1), Role(ROLE_TYPES.WITCH, 1),
       Role(ROLE_TYPES.BODYGUARD, 1) >> }

WitchNext ==
  Play(WitchConfigs, MaxNightGames, { "p1", "p2", "p3" }, { "p3", "p4" },
       { "night" }, { "p1" }, {})

WitchSpec == NightInit /\ [][WitchNext]_vars

\* A room of three guests for the role assignment: configurations of more
\* roles than guests, of fewer and of none, every outcome of the shuffle.
DealConfigs ==
  { << Role(ROLE_TYPES.ALPHA_WOLF, 1), Role(ROLE_TYPES.WITCH, 1),
       Role(ROLE_TYPES.TRAITOR, 1), Role(ROLE_TYPES.HUNTER, 1) >>,
    << Role(ROLE_TYPES.WOLF, 2), Role(ROLE_TYPES.SEER, 1),
       Role(ROLE_TYPES.VILLAGER, 1), Role(ROLE_TYPES.BODYGUARD, 1) >>,
    << Role(ROLE_TYPES.WOLF, 1) >>,
    << >> }

DealNext ==
  \/ StartGame(DealConfigs, TRUE, MaxGames)
  \/ ResetGame
  \/ KickPlayer

DealSpec == Init /\ [][DealNext]_vars

\* The room of three guests again, with the calls that fail and the
\* sockets that come and go: startGame without a configuration, the
\* disconnect of p3, GET_PLAYERS, a fourth guest p4 who joins while the
\* limit of players allows; p1 acts at night, p1 and p2 vote.
Limits == { 2, 3, 4 }

LifeNext ==
  \/ Play(Configs, MaxGames, { "p1" }, { "p2", "p3" }, { "night" }, { "p1", "p2" }, { "p1" })
  \/ KickPlayer
  \/ StartGameNoConfig
  \/ Disconnect({ "p3" })
  \/ GetPlayers
  \/ JoinRoom({ "p4" })
  \/ SetMaxPlayers(Limits)

LifeSpec == Init /\ [][LifeNext]_vars

\* The room of three guests with the AI host, which any client may enable
\* and disable: with it enabled the owner h plays (and is the wolf), the
\* timeouts advance the phases; the wolf acts at night, p1 readies and votes.
AiConfigs == { << Role(ROLE_TYPES.WOLF, 1) >> }

AiNext ==
  \/ Play(AiConfigs, MaxNightGames, { "h", "p1" }, { "p2" }, { "night" }, { "p1" }, { "p2" })
  \/ KickPlayer
  \/ SetAiHostEnabled
  \/ ReadyForVote({ "p1" })
  \/ PhaseTimeout
  \/ DelayedAdvance

AiSpec == Init /\ [][AiNext]_vars

\* The room of the AI host over two games: the host h starts a game (p1 is
\* the wolf), enables the AI host, resets and starts again while the early
\* advances of the wolf's submissions are pending.
EarlyNext ==
  \/ StartGame(AiConfigs, FALSE, MaxGames)
  \/ SubmitAction({ "h", "p1" }, { "p2" }, { "night" })
  \/ AdvancePhase
  \/ ResetGame
  \/ SetAiHostEnabled
  \/ DelayedAdvance

EarlySpec == Init /\ [][EarlyNext]_vars

\* The room of the AI host where everybody submits: the wolf h kills p1 at
\* night, the living ready themselves, vote on h or skip, and cast their
\* verdicts; only the timeouts and the early advances advance the room.
ReadyNext ==
  \/ StartGame(AiConfigs, FALSE, MaxNightGames)
  \/ SetAiHostEnabled
  \/ SubmitAction({ "h" }, { "p1" }, { "night" })
  \/ ReadyForVote({ "h", "p1", "p2", "p3" })
  \/ SubmitVote({ "h", "p2", "p3" }, { "h" })
  \/ PhaseTimeout
  \/ DelayedAdvance

ReadySpec == Init /\ [][ReadyNext]_vars

\* A room of five guests for the nights of the seer: p1 is a wolf and p2 the
\* seer; they act on p1 and p3, and p1 votes SKIP.
SeerConfigs == { << Role(ROLE_TYPES.WOLF, 1), Role(ROLE_TYPES.SEER, 1) >> }

SeerNext ==
  Play(SeerConfigs, MaxNightGames, { "p1", "p2" }, { "p1", "p3" },
       { "night" }, { "p1" }, {})

SeerSpec == NightInit /\ [][SeerNext]_vars

\* A room of five guests for the ballots: p1 is the wolf and kills p2 or
\* nobody; p1 and p3 vote on the moderator h and on p2, who may be dead or
\* kicked by then.
BallotNext ==
  \/ StartGame(AiConfigs, FALSE, MaxNightGames)
  \/ SubmitAction({ "p1" }, { "p2" }, { "night" })
  \/ SubmitVote({ "p1", "p3" }, { "h", "p2" })
  \/ AdvancePhase
  \/ KickPlayer

BallotSpec == NightInit /\ [][BallotNext]_vars

\* A room of five guests for the nights of the hunters: p1 is a wolf, p2 a
\* guard or a hunter and p3 a hunter; they act on p2, p3 and p4, and p1
\* votes SKIP.
HunterConfigs ==
  { << Role(ROLE_TYPES.WOLF, 1), Role(ROLE_TYPES.BODYGUARD, 1),
       Role(ROLE_TYPES.HUNTER, 1) >>,
    << Role(ROLE_TYPES.WOLF, 1), Role(ROLE_TYPES.HUNTER, 2) >> }

HunterNext ==
  Play(HunterConfigs, MaxNightGames, { "p1", "p2", "p3" }, { "p2", "p3", "p4" },
       { "night" }, { "p1" }, {})

HunterSpec == NightInit /\ [][HunterNext]_vars

\* A room of five guests for the potions of two witches: p1 is a wolf, p2
\* and p3 are the witches; they act on p4 and p5, and p1 votes SKIP.
CovenConfigs ==
  { << Role(ROLE_TYPES.WOLF, 1), Role(ROLE_TYPES.WITCH, 2) >> }

CovenNext ==
  Play(CovenConfigs, MaxNightGames, { "p2", "p3" }, { "p4", "p5" },
       { "night" }, { "p1" }, {})

CovenSpec == NightInit /\ [][CovenNext]_vars

\* A room of five guests for the nights of a witch and a hunter: p1 is a
\* wolf, p2 the witch and p3 the hunter; they act on p2 and p3, and p1 votes
\* SKIP.
PotionConfigs ==
  { << Role(ROLE_TYPES.WOLF, 1), Role(ROLE_TYPES.WITCH, 1),
       Role(ROLE_TYPES.HUNTER, 1) >> }

PotionNext ==
  Play(PotionConfigs, MaxNightGames, { "p1", "p2", "p3" }, { "p2", "p3" },
       { "night" }, { "p1" }, {})

PotionSpec == NightInit /\ [][PotionNext]_vars

\* The room of three guests for the trials of three days: p1 is a wolf
\* who does not kill, p2 a hunter, the traitor or a guard who acts on p1 and
\* p3 at night; p1 and p3 vote on p2.
TrialConfigs ==
  { << Role(ROLE_TYPES.WOLF, 1), Role(ROLE_TYPES.HUNTER, 1) >>,
    << Role(ROLE_TYPES.WOLF, 1), Role(ROLE_TYPES.TRAITOR, 1) >>,
    << Role(ROLE_TYPES.WOLF, 1), Role(ROLE_TYPES.BODYGUARD, 1) >> }

TrialNext ==
  \/ StartGame(TrialConfigs, FALSE, MaxNightGames)
  \/ SubmitAction({ "p2" }, { "p1", "p3" }, { "night" })
  \/ SubmitVote({ "p1", "p3" }, { "p2" })
  \/ AdvancePhaseUntil(MaxTrialDay)
  \/ EndGame
  \/ ResetGame

TrialSpec == Init /\ [][TrialNext]_vars

\* The room of three guests with a lawyer: roleConfig names the role
\* lawyer for p2, who commits the immunity on p3 at night, by day or during
\* the vote; p1 and p2 vote on p3.
LawyerConfigs == { << Role(ROLE_TYPES.WOLF, 1), Role("lawyer", 1) >> }

LawyerNext ==
  \/ StartGame(LawyerConfigs, FALSE, MaxNightGames)
  \/ SubmitLawyerProtect({ "p2" }, { "p3" })
  \/ SubmitVote({ "p1", "p2" }, { "p3" })
  \/ AdvancePhase
  \/ EndGame
  \/ ResetGame

LawyerSpec == Init /\ [][LawyerNext]_vars

-----------------------------------------------------------------------------
(* Properties *)

Alive(r, id) == HasPlayer(r.players, id) /\ Player(r.players, id).alive

FactionIn(r, id) == Player(r.players, id).faction

\* the steps that resolve a night, a day vote and a final verdict
ResolvedNight == room.phase = "night" /\ room'.phase \in { "day", "end" }

ResolvedVote ==
  room.phase = "vote" /\ room'.phase \in { "defense", "execution_reveal", "end" }

ResolvedVerdict ==
  room.phase = "final_verdict" /\ room'.phase \in { "execution_reveal", "end" }

\* the wolves' kill of the resolution d was applied to a player of r: there
\* was a consensus target in the room, neither protected nor saved
Applied(r, d) ==
  /\ d.killTargetId # NULL /\ HasPlayer(r.players, d.killTargetId)
  /\ d.killTargetId # d.protectedTargetId /\ d.killTargetId # d.witchSavedTarget

\* the player id is as alive after the step as before it, unless the potion
\* or a death link of the resolution d killed it
Spared(id, d) ==
  Alive(room', id) = Alive(room, id) \/ id \in d.poisoned \cup d.linked

\* C1: in every night resolution, a player X on whom an alive guard
\* submitted PROTECT in that night's ledger does not die in the resolution,
\* unless through a death link; whatever the roles, several guards
\* protecting different targets included.
C1_ProtectedDiesOnlyByDeathLink ==
  [][ ResolvedNight =>
        \A x \in Guarded(room) :
          Alive(room, x) /\ ~Alive(room', x) => x \in last'.detail.linked ]_vars

\* C2: in a night resolution that applies the wolves' kill, the consensus
\* target is never both converted and killed by it: if the curse names the
\* target, its faction becomes wolf and the kill leaves it as alive as it
\* was; otherwise it is dead and its faction is unchanged.  The curse names
\* the target when it is the one target the alpha wolves with an unused
\* curse submitted, and does not when none of them submitted it.
C2_ConvertedOrKilled ==
  [][ ResolvedNight /\ Applied(room, last'.detail) =>
        LET d == last'.detail
            t == last'.detail.killTargetId
        IN /\ d.cursed = { t } => d.alphaCurseTarget = t
           /\ t \notin d.cursed => d.alphaCurseTarget # t
           /\ IF d.alphaCurseTarget = t
                THEN FactionIn(room', t) = FACTIONS.WOLF /\ Spared(t, d)
                ELSE ~Alive(room', t) /\ FactionIn(room', t) = FactionIn(room, t) ]_vars

\* a night converted a guard who is alive and of the wolves' faction since
C2_Converted ==
  /\ last.op = "resolveNight" /\ last.detail.outcome = "converted"
  /\ last.detail.cursed = { last.detail.killTargetId }
  /\ Alive(room, last.detail.killTargetId)
  /\ Player(room.players, last.detail.killTargetId).role = ROLE_TYPES.BODYGUARD
  /\ FactionIn(room, last.detail.killTargetId) = FACTIONS.WOLF

C4_UnusedSalvationSaves ==
  [][ ResolvedNight =>
        \A w \in SaveSubmitters(room) :
          ~Player(room.players, w).attributes.hasSaved =>
            IF w \in SaveSubmittersOn(room, last'.detail.killTargetId)
              THEN /\ Player(room'.players, w).attributes.hasSaved
                   /\ Spared(last'.detail.killTargetId, last'.detail)
                   /\ FactionIn(room', last'.detail.killTargetId)
                        = FactionIn(room, last'.detail.killTargetId)
              ELSE ~Player(room'.players, w).attributes.hasSaved ]_vars

\* a witch whose SAVE went unused at an earlier night saved the consensus
\* target of this one, who is alive
C4_SavedLater ==
  /\ hist.savedLater # {}
  /\ last.op = "resolveNight" /\ last.detail.outcome = "saved"
  /\ last.detail.savers \subseteq hist.unused
  /\ Alive(room, last.detail.killTargetId)

\* the alive players of r who are no moderator, of the wolves and not
WolvesAlive(r) ==
  { p \in Range(r.players) : ~p.isHost /\ p.alive /\ p.faction = FACTIONS.WOLF }

OthersAlive(r) ==
  { p \in Range(r.players) : ~p.isHost /\ p.alive /\ p.faction # FACTIONS.WOLF }

\* the room r, and r with any alive flag and any faction for its moderator
Moderated(r) ==
  { r } \cup
  { [ r EXCEPT !.players[i].alive = a, !.players[i].faction = f ] :
      i \in { j \in 1..Len(r.players) : r.players[j].isHost },
      a \in BOOLEAN, f \in { NULL, FACTIONS.WOLF, FACTIONS.VILLAGER } }

\* C5: with W the alive wolves and O the alive others among the players who
\* are no moderator, checkWin sets winner VILLAGERS and phase end if W = 0,
\* winner WOLVES and phase end if W >= 1 and W >= O, and changes nothing
\* otherwise, whatever the moderator's alive flag and faction are.
C5_CheckWin ==
  \A r \in Moderated(room) :
    LET W == Cardinality(WolvesAlive(room))
        O == Cardinality(OthersAlive(room))
    IN /\ W = 0 => checkWin(r) = [ r EXCEPT !.winner = "VILLAGERS", !.phase = "end" ]
       /\ W >= 1 /\ W >= O
            => checkWin(r) = [ r EXCEPT !.winner = "WOLVES", !.phase = "end" ]
       /\ W >= 1 /\ W < O => checkWin(r) = r

\* a night left one wolf, the moderator and nobody else: the wolves won
C5_WolfAndModerator ==
  /\ last.op = "resolveNight" /\ room.winner = "WOLVES"
  /\ Cardinality(WolvesAlive(room)) = 1 /\ OthersAlive(room) = {}
  /\ \E p \in Range(room.players) : p.isHost /\ p.alive

\* C6: in every reachable state, a room with a winner is in phase end.
C6_WinnerImpliesEnd == room.winner # NULL => room.phase = "end"

\* a final verdict set a winner
C6_VerdictWon ==
  last.op = "resolveFinalVerdict" /\ room.winner # NULL /\ room.phase = "end"

\* the room r with the call's result: an error that changed nothing
Refused(out, r) == out.result = "error" /\ out.room = r

\* C7: in a room with a winner, every submitAction, submitVote and
\* advancePhase fails with an error and changes nothing.
C7_WinnerRefusesCalls ==
  room.winner # NULL =>
    \A p \in Ids(room.players) :
      /\ Refused(advancePhase(room, p), room)
      /\ \A t \in Ids(room.players) \cup { "SKIP" } :
           Refused(submitVote(room, p, t), room)
      /\ \A t \in Ids(room.players), a \in Abilities(Player(room.players, p).role) :
           Refused(submitAction(room, p, a, t), room)

\* the numbers of final-verdict ballots of r for the choice
BallotsFor(r, choice) == Cardinality({ e \in Range(r.finalVotes) : e.v = choice })

\* C8: when a final verdict is resolved, the pending target dies only if
\* the EXECUTE ballots strictly outnumber the SPARE ballots; otherwise (a
\* tie, with zero ballots too) nobody dies and, unless a winner results, the
\* phase becomes execution_reveal.
C8_ExecutionNeedsMajority ==
  [][ ResolvedVerdict =>
        /\ Alive(room, room.pendingExecutionId) /\ ~Alive(room', room.pendingExecutionId)
             => BallotsFor(room, "EXECUTE") > BallotsFor(room, "SPARE")
        /\ BallotsFor(room, "EXECUTE") <= BallotsFor(room, "SPARE")
             => /\ \A p \in Ids(room.players) : Alive(room', p) = Alive(room, p)
                /\ room'.winner = NULL => room'.phase = "execution_reveal" ]_vars

\* a verdict of as many EXECUTE as SPARE ballots spared the target
C8_TieSpared ==
  /\ last.op = "resolveFinalVerdict"
  /\ last.detail.executeVotes = last.detail.spareVotes
  /\ last.detail.executeVotes >= 1
  /\ Alive(room, last.detail.victimId)
  /\ room.phase = "execution_reveal"

\* the ballots of the day vote that count, by their place in the ledger
Counted(votes) == { i \in 1..Len(votes) : votes[i].v \notin { NULL, "SKIP" } }

BallotsOn(votes, t) == Cardinality({ i \in Counted(votes) : votes[i].v = t })

FirstOn(votes, t) ==
  CHOOSE i \in Counted(votes) :
    votes[i].v = t /\ \A j \in Counted(votes) : votes[j].v = t => i <= j

\* the plurality target: most ballots, the earliest named of those that tie
Plurality(votes) ==
  IF Counted(votes) = {} THEN NULL
  ELSE CHOOSE t \in { votes[i].v : i \in Counted(votes) } :
         \A u \in { votes[i].v : i \in Counted(votes) } \ { t } :
           \/ BallotsOn(votes, t) > BallotsOn(votes, u)
           \/ /\ BallotsOn(votes, t) = BallotsOn(votes, u)
              /\ FirstOn(votes, t) < FirstOn(votes, u)

Fresh(r) ==
  LET guest(p) == ~p.isHost
      guests == SelectSeq(r.players, guest)
  IN Lobby([ i \in 1..Len(guests) |-> guests[i].id ])

\* the state required of the room r that resetGame or endGame left, and of
\* the startGame that follows
Reset(r, h) ==
  /\ r.phase = "lobby" /\ r.day = 0 /\ r.winner = NULL
  /\ \A p \in Range(r.players) :
       /\ p.alive /\ p.role = NULL /\ p.faction = NULL
       /\ p.attributes = EmptyAttributes
  /\ r.actions = << >> /\ r.votes = << >> /\ r.finalVotes = << >>
  /\ r.pendingExecutionId = NULL
  /\ \A config \in Configs :
       \A draws \in NoSwap(Len(PaddedPool(config, Cardinality(NonHostIdxs(r.players))))) :
         startGame(r, h, config, draws) = startGame(Fresh(r), h, config, draws)

\* C10: resetGame and endGame, in any phase, give a room in lobby with day
\* 0, no winner, every player alive and without role, faction and ability
\* state, empty ledgers and no pending execution; a startGame after them
\* gives the state startGame gives on a freshly created room with the same
\* players and configuration.
C10_ResetIsFresh ==
  \A h \in Ids(room.players) :
    IsHostOf(room, h) =>
      Reset(resetGame(room, h).room, h) /\ Reset(endGame(room, h).room, h)

\* the players of r who are no moderator and hold the role
Holders(r, role) == { p \in Range(r.players) : ~p.isHost /\ p.role = role }

\* the number of roles a configuration names
RECURSIVE Configured(_)
Configured(config) ==
  IF config = << >> THEN 0 ELSE Head(config).count + Configured(Tail(config))

\* the count a configuration gives the role, 0 when it does not name it
CountOf(config, role) ==
  IF \E e \in Range(config) : e.role = role
    THEN (CHOOSE e \in Range(config) : e.role = role).count
    ELSE 0

AllRoles == { ROLE_TYPES[k] : k \in DOMAIN ROLE_TYPES }

\* the room r as role assignment with the configuration has to leave it
Dealt(r, config) ==
  LET n == Cardinality({ p \in Range(r.players) : ~p.isHost })
  IN /\ \A p \in Range(r.players) :
          IF p.isHost THEN p.role = NULL
          ELSE /\ p.role \in AllRoles
               /\ p.faction =
                    IF p.role \in { "wolf", "alphaWolf" } THEN "wolf"
                    ELSE IF p.role = "traitor" THEN "neutral"
                    ELSE "villager"
     /\ \A role \in AllRoles \ { ROLE_TYPES.VILLAGER } :
          Cardinality(Holders(r, role)) <= CountOf(config, role)
     /\ Configured(config) <= n =>
          /\ \A role \in AllRoles \ { ROLE_TYPES.VILLAGER } :
               Cardinality(Holders(r, role)) = CountOf(config, role)
          /\ Cardinality(Holders(r, ROLE_TYPES.VILLAGER))
               = CountOf(config, ROLE_TYPES.VILLAGER) + (n - Configured(config))

\* C11: after the role assignment of a startGame, whatever the shuffle
\* draws, every player who is no moderator holds one role and the moderator
\* none; no configured role other than villager is held by more players
\* than its configured count, also when the configuration names more roles
\* than there are players; when it names fewer, every configured role is
\* held by its count of players and the others are villagers; the faction
\* is wolf for wolf and alphaWolf, neutral for traitor, villager otherwise.
C11_RolesDealt ==
  \A h \in Ids(room.players), config \in DealConfigs :
    \A draws \in Draws(Len(PaddedPool(config, Cardinality(NonHostIdxs(room.players))))) :
      startGame(room, h, config, draws).result = "ok"
        => Dealt(startGame(room, h, config, draws).room, config)

\* a startGame dealt three of four configured roles to the three guests: no
\* guest is a villager and nobody is a hunter
C11_RolesLeftOver ==
  /\ last.op = "startGame" /\ room.phase = "night"
  /\ Cardinality({ p \in Range(room.players) : ~p.isHost }) = 3
  /\ \A p \in Range(room.players) :
       ~p.isHost => p.role \in { "alphaWolf", "witch", "traitor" }
  /\ Cardinality(Holders(room, ROLE_TYPES.WITCH)) = 1
  /\ Cardinality(Holders(room, ROLE_TYPES.TRAITOR)) = 1

\* C12: a step inside one game (no startGame returned, and the room was not
\* in the lobby and is not after the step) revives nobody: no player who was
\* dead before the step is alive after it.
C12_NoRevival ==
  [][ hist'.games = hist.games /\ room.phase # "lobby" /\ room'.phase # "lobby" =>
        \A p \in Ids(room.players) \cap Ids(room'.players) :
          Alive(room', p) => Alive(room, p) ]_vars

\* the rooms a and b agree on phase, day, roles, factions, alive flags and
\* ledgers
SameGame(a, b) ==
  /\ a.phase = b.phase /\ a.day = b.day
  /\ Len(a.players) = Len(b.players)
  /\ \A i \in 1..Len(a.players) :
       /\ a.players[i].id = b.players[i].id
       /\ a.players[i].role = b.players[i].role
       /\ a.players[i].faction = b.players[i].faction
       /\ a.players[i].alive = b.players[i].alive
  /\ a.actions = b.actions /\ a.votes = b.votes /\ a.finalVotes = b.finalVotes

\* C13: a startGame called while the phase is not lobby, or by a player who
\* is not the moderator, fails with an error and leaves phase, day, roles,
\* factions, alive flags and ledgers as they were.
C13_StartGameRefused ==
  \A h \in Clients(room), config \in Configs :
    \A draws \in NoSwap(Len(PaddedPool(config, Cardinality(NonHostIdxs(room.players))))) :
      room.phase # "lobby" \/ ~IsHostOf(room, h) =>
        /\ startGame(room, h, config, draws).result = "error"
        /\ SameGame(startGame(room, h, config, draws).room, room)

\* the call that gave out failed without changing the room r
Harmless(out, r) == out.result = "error" => out.room = r

AllAbilities == { "KILL", "CURSE", "PROTECT", "SAVE", "PIN", "CHECK", "NONE" }

\* C14: every joinRoom, startGame (without a role configuration too),
\* submitAction, advancePhase, resetGame, endGame, setMaxPlayers and
\* kickPlayer that ends in an error leaves the room as it was before the call.
C14_ErrorsChangeNothing ==
  \A c \in Clients(room) \cup { "nobody" } :
    /\ Harmless(joinRoom(room, c), room)
    /\ Harmless(startGameNoConfig(room, c), room)
    /\ \A config \in Configs :
         \A draws \in NoSwap(Len(PaddedPool(config, Cardinality(NonHostIdxs(room.players))))) :
           Harmless(startGame(room, c, config, draws), room)
    /\ \A a \in AllAbilities, t \in Ids(room.players) \cup { NULL } :
         Harmless(submitAction(room, c, a, t), room)
    /\ Harmless(advancePhase(room, c), room)
    /\ Harmless(resetGame(room, c), room)
    /\ Harmless(endGame(room, c), room)
    /\ \A m \in Limits : Harmless(setMaxPlayers(room, c, m), room)
    /\ \A t \in Ids(room.players) \cup { "nobody" } :
         Harmless(kickPlayer(room, c, t), room)

\* the entries of the view that are not the requester's own and show a role
Shown(view, requester) ==
  { i \in 1..Len(view) : view[i].id # requester /\ view[i].role # "???" }

\* the entry of the requester in the view says moderator, or eliminated
SeesAll(view, requester) ==
  \E i \in 1..Len(view) :
    view[i].id = requester /\ (view[i].isHost \/ ~view[i].alive)

\* C15: the view getPlayerView gives a requester R shows the role of another
\* player only if R is the moderator, R is eliminated or the phase is end;
\* for an alive requester who is no moderator, and for a requester who is
\* not in the room, in any other phase every entry but R's own has the role
\* "???".
C15_RolesHidden ==
  \A requester \in Ids(room.players) \cup { "nobody" } :
    Shown(getPlayerView(room, requester), requester) # {}
      => room.phase = "end" \/ SeesAll(getPlayerView(room, requester), requester)

\* by day, with roles dealt: an alive guest is shown no role but the own
\* one, and a dead guest is shown the role of every other player
C15_DeadSeeLivingDoNot ==
  /\ room.phase = "day"
  /\ \E a, d \in Range(room.players) :
       /\ ~a.isHost /\ a.alive /\ ~d.isHost /\ ~d.alive
       /\ Shown(getPlayerView(room, a.id), a.id) = {}
       /\ Shown(getPlayerView(room, d.id), d.id)
            = { i \in 1..Len(room.players) : room.players[i].id # d.id }
       /\ \E p \in Range(room.players) : p.id # a.id /\ p.role = ROLE_TYPES.WOLF

\* the players of r with isHost = true
Hosts(r) == { i \in 1..Len(r.players) : r.players[i].isHost }

\* C16: in every reachable state of a room whose AI host is disabled,
\* exactly one player has isHost = true.
C16_OneHostWithoutAi == ~room.aiHostEnabled => Cardinality(Hosts(room)) = 1

\* C17: when the timeout of room.phaseTimer runs after the room has left
\* the phase (of the day) it was set in, it changes nothing: a stale timeout
\* advances no later phase.
C17_NoStaleTimeout ==
  [][ timers'.fired > timers.fired =>
        \/ timers.phaseTimer.phase = room.phase /\ timers.phaseTimer.day = room.day
        \/ room' = room ]_vars

\* the ids submitAction is to refuse: an id of no player of the room, a dead
\* player, a disconnected player and a moderator
MayNotAct(r) ==
  { "nobody" } \cup { p.id : p \in { q \in Range(r.players) :
                                       ~q.alive \/ ~q.connected \/ q.isHost } }

\* C18: submitAction by a dead, unknown or disconnected player, or by the
\* moderator, fails and leaves the action ledger (room.actions) unchanged,
\* whatever the ability and the target.
C18_OnlyLivePlayersAct ==
  \A playerId \in MayNotAct(room), actionType \in AllAbilities,
     targetId \in Ids(room.players) \cup { NULL } :
    /\ submitAction(room, playerId, actionType, targetId).result = "error"
    /\ submitAction(room, playerId, actionType, targetId).room.actions = room.actions

\* C19: pendingExecutionId is non-null only while the phase is defense or
\* final_verdict; in lobby, night, day, vote, execution_reveal and end it
\* is null.
C19_PendingOnlyOnTrial ==
  room.pendingExecutionId # NULL => room.phase \in { "defense", "final_verdict" }

\* C20: in every reachable state there is a player of the room whose
\* resetGame and whose endGame are accepted.
C20_SomebodyCanReset ==
  \E c \in Ids(room.players) :
    resetGame(room, c).result = "ok" /\ endGame(room, c).result = "ok"

\* the hunters of r who are not alive and hold a pinned target
DeadHunters(r) ==
  { p \in Range(r.players) :
      /\ p.role = ROLE_TYPES.HUNTER /\ ~p.alive
      /\ p.attributes.pinnedTargetId # NULL }

\* C21: at the end of every night resolution the pinned target of every
\* hunter who is not alive is dead, the guard's protected target of that
\* night included.
C21_DeathLinkUnstoppable ==
  [][ ResolvedNight =>
        \A h \in DeadHunters(room') : ~Alive(room', h.attributes.pinnedTargetId) ]_vars

\* the alive hunters of r with a PIN in the ledger
Pinners(r) ==
  { e.k : e \in { x \in EntriesOf(r, ROLE_TYPES.HUNTER) : x.v.acts[1].type = "PIN" } }

\* the target of the PIN of the hunter h in the ledger of r
PinOf(r, h) == MapGet(r.actions, h).acts[1].targetId

\* the resolution d killed the player id by the wolves' kill or by the potion
KilledBy(id, d) ==
  (d.outcome = "killed" /\ d.killTargetId = id) \/ id \in d.poisoned

\* C22: in every night resolution, the PIN of a hunter who was alive at the
\* start of the night is recorded, and if the wolves' kill or the witch's
\* potion kills that hunter in this resolution, the target pinned this night
\* is dead after it.
C22_PinBeforeDeaths ==
  [][ ResolvedNight =>
        \A h \in Pinners(room) :
          /\ Player(room'.players, h).attributes.pinnedTargetId = PinOf(room, h)
          /\ KilledBy(h, last'.detail) => ~Alive(room', PinOf(room, h)) ]_vars

\* the first night's potion killed a hunter, and the death link the player
\* that hunter had pinned this night
C22_PoisonedHunterLinked ==
  /\ last.op = "resolveNight" /\ room.day = 1
  /\ \E h \in last.detail.poisoned :
       /\ Player(room.players, h).role = ROLE_TYPES.HUNTER
       /\ Player(room.players, h).attributes.pinnedTargetId \in last.detail.linked

\* the targets of the KILL actions the witch w has in the ledger of r
PotionTargets(r, w) ==
  { a.targetId : a \in { b \in Acts([ k |-> w, v |-> MapGet(r.actions, w) ]) :
                           b.type = "KILL" } }

\* the alive witches of r with an unused potion and a KILL in the ledger
Poisoners(r) ==
  { e.k : e \in { x \in EntriesOf(r, ROLE_TYPES.WITCH) :
                    /\ ~Player(r.players, x.k).attributes.hasKilled
                    /\ \E a \in Acts(x) : a.type = "KILL" } }

\* C25: in every night resolution, for every alive witch with an unused
\* potion who submitted KILL, the potion is used after the resolution
\* whether or not a target died, and it kills no target the guard protects.
C25_PotionSpentOnce ==
  [][ ResolvedNight =>
        \A w \in Poisoners(room) :
          /\ Player(room'.players, w).attributes.hasKilled
          /\ PotionTargets(room, w) \cap Guarded(room) \cap last'.detail.poisoned = {} ]_vars

\* the target of the first KILL action the witch w has in the ledger of r
FirstPotionTarget(r, w) ==
  LET acts == MapGet(r.actions, w).acts
      first == CHOOSE j \in 1..Len(acts) :
                 acts[j].type = "KILL" /\ \A k \in 1..(j - 1) : acts[k].type # "KILL"
  IN acts[first].targetId

\* C26: in every night resolution the lethal potion of a witch who was
\* alive at the start of the night (and had not used it) is applied, even
\* if the witch herself is killed earlier in the resolution: its target, if
\* alive and not protected by a guard, is dead after the resolution.
C26_PreNightAliveDecides ==
  [][ ResolvedNight =>
        \A w \in Poisoners(room) :
          Alive(room, FirstPotionTarget(room, w))
          /\ FirstPotionTarget(room, w) \notin Guarded(room)
            => ~Alive(room', FirstPotionTarget(room, w)) ]_vars

\* the alive bodyguards of r
Bodyguards(r) ==
  { p \in Range(r.players) : p.role = ROLE_TYPES.BODYGUARD /\ p.alive /\ ~p.isHost }

\* C27: at night, the submitAction(PROTECT, T) of an alive guard fails
\* exactly when that guard protected T at the night before this one (the
\* last night resolved), and a call that fails leaves the room unchanged.
C27_RepeatRefusedOnly ==
  room.phase = "night" =>
    \A g \in Bodyguards(room), t \in Ids(room.players) :
      /\ (submitAction(room, g.id, "PROTECT", t).result = "error")
           = ([ guard |-> g.id, target |-> t ] \in hist.guards)
      /\ Harmless(submitAction(room, g.id, "PROTECT", t), room)

\* the final verdict of this step executes the pending player
Executed == ResolvedVerdict /\ room'.executedPlayerId = room.pendingExecutionId

\* the winner the players of r make: the win evaluation on r
WinnerOf(r) ==
  IF WolvesAlive(r) = {} THEN "VILLAGERS"
  ELSE IF Cardinality(WolvesAlive(r)) >= Cardinality(OthersAlive(r)) THEN "WOLVES"
  ELSE NULL

\* C23: when the final verdict executes a hunter who holds a pinned
\* target, the pinned target is dead after the resolution, and the winner
\* the resolution leaves is the one of the players after both deaths.
C23_ExecutedHunterLinks ==
  [][ Executed
      /\ Player(room.players, room.pendingExecutionId).role = ROLE_TYPES.HUNTER
      /\ Player(room.players, room.pendingExecutionId).attributes.pinnedTargetId # NULL
        => /\ ~Alive(room', room.pendingExecutionId)
           /\ ~Alive(room', Player(room.players, room.pendingExecutionId).attributes.pinnedTargetId)
           /\ room'.winner = WinnerOf(room')
           /\ room'.phase = IF WinnerOf(room') = NULL THEN "execution_reveal" ELSE "end" ]_vars

\* the verdict executed the hunter, who had pinned the only wolf: both are
\* dead and the villagers have won
C23_LinkedWolfEndsGame ==
  /\ last.op = "resolveFinalVerdict" /\ room.executedPlayerId = last.detail.victimId
  /\ HasPlayer(room.players, last.detail.victimId)
  /\ Player(room.players, last.detail.victimId).role = ROLE_TYPES.HUNTER
  /\ \E t \in Range(room.players) :
       /\ t.id = Player(room.players, last.detail.victimId).attributes.pinnedTargetId
       /\ t.role = ROLE_TYPES.WOLF /\ ~t.alive
  /\ room.winner = "VILLAGERS" /\ room.phase = "end"

\* C24: when the final verdict executes the traitor on day 1, the winner is
\* TRAITOR and the phase end, whatever the win evaluation would give; when
\* it executes the traitor on a later day the winner is not TRAITOR but the
\* one of the win evaluation.
C24_TraitorWinsOnDayOne ==
  [][ Executed
      /\ Player(room.players, room.pendingExecutionId).role = ROLE_TYPES.TRAITOR
        => /\ ~Alive(room', room.pendingExecutionId)
           /\ IF room.day = 1
                THEN room'.winner = "TRAITOR" /\ room'.phase = "end"
                ELSE /\ room'.winner = WinnerOf(room')
                     /\ room'.phase = IF WinnerOf(room') = NULL
                                        THEN "execution_reveal" ELSE "end" ]_vars

\* the traitor was executed on day 1 and has won, although the wolves are
\* as many as the others
C24_TraitorWonOverWolves ==
  /\ last.op = "resolveFinalVerdict" /\ room.executedPlayerId = last.detail.victimId
  /\ Player(room.players, last.detail.victimId).role = ROLE_TYPES.TRAITOR
  /\ room.day = 1 /\ room.winner = "TRAITOR" /\ room.phase = "end"
  /\ WinnerOf(room) = "WOLVES"

\* the players of r who are alive before the step and not after it
Died == { id \in Ids(room.players) : Alive(room, id) /\ ~Alive(room', id) }

\* C28: when the day vote is resolved and its plurality target is the
\* player on whom an alive lawyer committed an unused immunity since the
\* last vote (at the night before included), the phase becomes
\* execution_reveal, nobody is pending or dies, and the commitment is gone.
C28_ImmunityCancelsExecution ==
  [][ ResolvedVote /\ hist.committed # NULL
      /\ hist.committed = Plurality(room.votes)
        => /\ room'.phase = "execution_reveal"
           /\ room'.pendingExecutionId = NULL
           /\ Died = {}
           /\ LawyerProtect(room'.actions) = NULL ]_vars

\* the edges of the phase cycle
Edges ==
  { << "lobby", "night" >>, << "night", "day" >>, << "day", "vote" >>,
    << "vote", "defense" >>, << "vote", "execution_reveal" >>,
    << "defense", "final_verdict" >>, << "final_verdict", "execution_reveal" >>,
    << "execution_reveal", "night" >> }

\* the step changes the phase along an edge of the cycle (out of the lobby
\* by startGame), to end by a resolution that sets a winner, or to lobby by
\* endGame or resetGame
AlongEdge ==
  \/ /\ << room.phase, room'.phase >> \in Edges /\ room.winner = NULL
     /\ room.phase = "lobby" => last'.op = "startGame"
  \/ /\ room'.phase = "end" /\ room'.winner # NULL /\ room.winner = NULL
     /\ room.phase \in { "night", "vote", "final_verdict" }
  \/ room'.phase = "lobby" /\ last'.op \in { "endGame", "resetGame" }

\* C29: every step that changes the phase follows an edge of the cycle,
\* ends the game with a winner or resets to the lobby; startGame is taken
\* in the lobby only; advancePhase in lobby or end changes nothing.
C29_PhaseEdges ==
  [][ /\ room'.phase # room.phase => AlongEdge
      /\ hist'.games # hist.games => room.phase = "lobby"
      /\ room.phase \in { "lobby", "end" } =>
           \A c \in Ids(room.players) : advancePhase(room, c).room = room ]_vars

\* the step passes from the vote or its sub-phases to execution_reveal
ToExecutionReveal ==
  /\ room.phase \in { "vote", "defense", "final_verdict" }
  /\ room'.phase = "execution_reveal"

\* the step resolves a vote without candidate and its win evaluation ends the
\* game
VoteEndsGame ==
  /\ room.phase = "vote" /\ room'.phase = "end"
  /\ last'.op = "resolveVote" /\ room'.pendingExecutionId = NULL

C31_LedgerEmptyAtNightfall ==
  [][ room.phase # "night" /\ room'.phase = "night" => room'.actions = << >> ]_vars

\* the step runs the delayed early advance d, and it advances the room
EarlyAdvanceBy(d) ==
  /\ timers'.delayed = timers.delayed (-) SetToBag({ d })
  /\ last' # last

\* C32: a delayed early advance advances the room only in the phase it was
\* set in (the same phase of the same day of the same game), and of those
\* set in one phase at most one advances the room.
C32_EarlyAdvanceInItsPhase ==
  [][ \A d \in BagToSet(timers.delayed) :
        EarlyAdvanceBy(d) =>
          /\ d.phase = room.phase /\ d.day = room.day /\ d.game = timers.games
          /\ d \notin timers.advanced ]_vars

\* C33: with the AI host enabled, whenever the room is in night, day, vote,
\* defense, final_verdict or execution_reveal a timeout of room.phaseTimer
\* is pending, whose callback will advance the room without any input of a
\* player.
C33_TimeoutPending ==
  room.aiHostEnabled /\ room.phase \in TimedPhases => timers.phaseTimer.pending

\* every eligible actor of the phase of r has submitted, and there is one:
\* the alive players with a night role at night, the alive players who are
\* not moderators in day (ready), vote (ballot) and final_verdict (verdict)
AllSubmitted(r) ==
  LET actors == { p \in AlivePlayers(r) : p.role \in NightRoles }
  IN IF r.phase = "night"
       THEN actors # {} /\ \A p \in actors : MapHas(r.actions, p.id)
     ELSE IF r.phase = "day"
       THEN AliveGuests(r) # {} /\ \A p \in AliveGuests(r) : p.id \in r.discussionReady
     ELSE IF r.phase = "vote"
       THEN AliveGuests(r) # {} /\ \A p \in AliveGuests(r) : MapHas(r.votes, p.id)
     ELSE IF r.phase = "final_verdict"
       THEN AliveGuests(r) # {} /\ \A p \in AliveGuests(r) : MapHas(r.finalVotes, p.id)
     ELSE FALSE

\* C34: with the AI host enabled, once every eligible actor of the phase has
\* submitted, the early-advance check sets a delayed advance of the phase.
C34_AllInSchedules ==
  room.aiHostEnabled /\ AllSubmitted(room) =>
    maybeAutoAdvance(room, timers).delayed # timers.delayed

\* the players of r who are no moderators are all dead at night of day 1
AllDeadAtNightOne(r) ==
  /\ r.phase = "night" /\ r.day = 1
  /\ (\E p \in Range(r.players) : ~p.isHost) /\ AliveGuests(r) = {}

\* C35: joinRoom with the token of a player of the room sets that player's
\* connected flag and changes no player's alive flag or ability state and no
\* other player's connected flag, unless all the players who are no
\* moderators are dead at night of day 1.
C35_ReconnectOnlyConnects ==
  \A c \in Clients(room) :
    ~AllDeadAtNightOne(room) =>
      \E out \in { reconnect(room, c).room } :
        /\ Ids(out.players) = Ids(room.players)
        /\ Player(out.players, c).connected
        /\ \A p \in Range(room.players) :
             /\ Player(out.players, p.id).alive = p.alive
             /\ Player(out.players, p.id).attributes = p.attributes
             /\ p.id # c => Player(out.players, p.id).connected = p.connected

\* the room r, had the player id been dealt the role role
Recast(r, id, role) ==
  [ r EXCEPT !.players[FindIdx(r.players, id)].role = role,
             !.players[FindIdx(r.players, id)].faction = FactionOf(role) ]

\* C36: the log the room broadcasts after a night does not tell the result
\* of the seer's check: whichever player were a villager or a wolf instead,
\* the night leaves the same log when it leads to the day in both cases.
C36_LogHidesCheck ==
  room.phase = "night" =>
    \A t \in Ids(room.players) :
      \E a \in { resolveNight(Recast(room, t, ROLE_TYPES.VILLAGER)) },
         b \in { resolveNight(Recast(room, t, ROLE_TYPES.WOLF)) } :
        a.phase = "day" /\ b.phase = "day" => a.actionLog = b.actionLog

\* the ids whose ballots are not to enter a ledger: the dead players and the
\* moderators
MayNotVote(r) == { p.id : p \in { q \in Range(r.players) : ~q.alive \/ q.isHost } }

\* every key of the ledger m holds one entry
OneEach(m) == \A i, j \in 1..Len(m) : m[i].k = m[j].k => i = j

\* C37: a submitVote by the moderator or by a dead player leaves the vote
\* ledger and the final-verdict ledger as they are; every voter holds at most
\* one ballot in each ledger; and no SKIP ballot is counted for a target.
C37_OnlyLivePlayersVote ==
  /\ \A playerId \in MayNotVote(room),
        targetId \in Ids(room.players) \cup { "SKIP", "EXECUTE", "SPARE" } :
       /\ submitVote(room, playerId, targetId).room.votes = room.votes
       /\ submitVote(room, playerId, targetId).room.finalVotes = room.finalVotes
  /\ OneEach(room.votes) /\ OneEach(room.finalVotes)
  /\ ~MapHas(Tally(BallotTargets(room.votes), << >>), "SKIP")

\* the dead hunters of r whose pinned target is alive
OpenLinks(r) ==
  { h \in DeadHunters(r) : Alive(r, h.attributes.pinnedTargetId) }

\* C38: a night resolution leaves no dead hunter whose pinned target is
\* alive (the death links are closed under chaining within the pass), and
\* finds none when it begins (no death link is left to a later night).
C38_DeathLinksClosed ==
  [][ ResolvedNight => OpenLinks(room') = {} /\ OpenLinks(room) = {} ]_vars

\* C39: in defense and in final_verdict pendingExecutionId is the id of a
\* player of the room who is alive and no moderator.
C39_CandidateIsLivePlayer ==
  room.phase \in { "defense", "final_verdict" } =>
    /\ HasPlayer(room.players, room.pendingExecutionId)
    /\ Player(room.players, room.pendingExecutionId).alive
    /\ ~Player(room.players, room.pendingExecutionId).isHost

\* the players the potion of the witch w has killed in the current game
PotionVictims(w) == { p \in hist.potions : p.witch = w }

C40_TwoKillsOneDeath ==
  /\ last.op = "resolveNight"
  /\ \E k \in last.detail.potionKills :
       /\ Alive(room, k.target)
       /\ \E p \in last.detail.potions : p.witch = k.witch /\ p.target # k.target

=============================================================================
